---- MODULE Spec2Model ----
(***************************************************************************)
(* TOON codec: the encoder and decoder of toon_parser.py, and the          *)
(* ToonParser class of toon_parser-old.py, as state machines over          *)
(* character sequences; the TOON validator; the LLM router and the rate    *)
(* limiting middleware of the service, as state machines over their calls. *)
(*                                                                         *)
(* A Python str is a sequence of one-character strings.  A Python value is *)
(* a record [t, n, x, s, kids]: t the type tag, n and x the number         *)
(* (n * 10^x for a float), s the characters of a str, kids the members of  *)
(* a container as a sequence of [k, val] pairs (k = <<>> for the elements  *)
(* of a list, tuple or set; insertion order is the sequence order).        *)
(***************************************************************************)
EXTENDS Integers, Sequences, FiniteSets, TLC

VARIABLES pc, data, options, toon_string, lines, i, result, out

vars == <<pc, data, options, toon_string, lines, i, result, out>>

(***************************************************************************)
(* Python str operations                                                   *)
(***************************************************************************)
Digits == <<"0", "1", "2", "3", "4", "5", "6", "7", "8", "9">>

IsDigit(c) == \E d \in 1..10 : Digits[d] = c

DigitVal(c) == (CHOOSE d \in 1..10 : Digits[d] = c) - 1

\* str.isspace / the characters str.strip() removes
IsSpace(c) == c \in {" ", "\t", "\n", "\r"}

Contains(s, c) == \E k \in 1..Len(s) : s[k] = c

ContainsAny(s, cs) == \E k \in 1..Len(s) : s[k] \in cs

\* str.find: the first index (1-based) of c in s, 0 when absent
Find(s, c) == IF Contains(s, c) THEN CHOOSE k \in 1..Len(s) : s[k] = c /\ \A j \in 1..(k-1) : s[j] # c ELSE 0

\* s[a-1:b]
Slice(s, a, b) == IF a > b THEN <<>> ELSE SubSeq(s, a, b)

\* d in s, for strings
IsSubstring(s, d) == \E k \in 0..(Len(s) - Len(d)) : Slice(s, k + 1, k + Len(d)) = d

StartsWith(s, p) == Len(s) >= Len(p) /\ Slice(s, 1, Len(p)) = p

EndsWith(s, p) == Len(s) >= Len(p) /\ Slice(s, Len(s) - Len(p) + 1, Len(s)) = p

\* the number of leading whitespace characters: len(s) - len(s.lstrip())
LeadingSpaces(s) == IF \A k \in 1..Len(s) : IsSpace(s[k]) THEN Len(s) ELSE (CHOOSE k \in 1..Len(s) : ~IsSpace(s[k]) /\ \A j \in 1..(k-1) : IsSpace(s[j])) - 1

TrailingSpaces(s) == IF \A k \in 1..Len(s) : IsSpace(s[k]) THEN Len(s) ELSE Len(s) - (CHOOSE k \in 1..Len(s) : ~IsSpace(s[k]) /\ \A j \in (k+1)..Len(s) : IsSpace(s[j]))

LStrip(s) == Slice(s, LeadingSpaces(s) + 1, Len(s))

RStrip(s) == Slice(s, 1, Len(s) - TrailingSpaces(s))

Strip(s) == RStrip(LStrip(s))

\* str.rstrip(c) for a single character c
RStripChar(s, c) == IF \A k \in 1..Len(s) : s[k] = c THEN <<>> ELSE Slice(s, 1, CHOOSE k \in 1..Len(s) : s[k] # c /\ \A j \in (k+1)..Len(s) : s[j] = c)

RECURSIVE Split(_, _)
\* str.split(c): "".split(c) is [""], "a,".split(",") is ["a", ""]
Split(s, c) == IF ~Contains(s, c) THEN <<s>> ELSE <<Slice(s, 1, Find(s, c) - 1)>> \o Split(Slice(s, Find(s, c) + 1, Len(s)), c)

RECURSIVE Join(_, _)
\* sep.join(parts)
Join(parts, sep) == IF Len(parts) = 0 THEN <<>> ELSE IF Len(parts) = 1 THEN parts[1] ELSE parts[1] \o sep \o Join(Tail(parts), sep)

\* str.partition(c): <<before, after>>; the whole string and "" when c is absent
Partition(s, c) == IF Contains(s, c) THEN <<Slice(s, 1, Find(s, c) - 1), Slice(s, Find(s, c) + 1, Len(s))>> ELSE <<s, <<>>>>

RECURSIVE Spaces(_)
\* " " * n
Spaces(n) == IF n <= 0 THEN <<>> ELSE <<" ">> \o Spaces(n - 1)

RECURSIVE Replace(_, _, _)
\* str.replace(old, new), old non-empty, left to right, non-overlapping
Replace(s, old, new) == IF Len(s) = 0 THEN <<>> ELSE IF StartsWith(s, old) THEN new \o Replace(Slice(s, Len(old) + 1, Len(s)), old, new) ELSE <<s[1]>> \o Replace(Tail(s), old, new)

(***************************************************************************)
(* Python values                                                           *)
(***************************************************************************)
Scalar(t, n, x, s) == [t |-> t, n |-> n, x |-> x, s |-> s, kids |-> <<>>]

PyNone == Scalar("NoneType", 0, 0, <<>>)

PyBool(b) == Scalar("bool", IF b THEN 1 ELSE 0, 0, <<>>)

PyInt(n) == Scalar("int", n, 0, <<>>)

RECURSIVE NormFloat(_, _)
\* the pair <<n, x>> with n * 10^x the same number and n not a multiple of 10
NormFloat(n, x) == IF n = 0 THEN <<0, 0>> ELSE IF n % 10 = 0 THEN NormFloat(n \div 10, x + 1) ELSE <<n, x>>

\* the finite float n * 10^x
PyFloat(n, x) == Scalar("float", NormFloat(n, x)[1], NormFloat(n, x)[2], <<>>)

NaN == Scalar("float", 0, 0, <<"n", "a", "n">>)

Inf == Scalar("float", 0, 0, <<"i", "n", "f">>)

NegInf == Scalar("float", 0, 0, <<"-", "i", "n", "f">>)

NegZero == Scalar("float", 0, 0, <<"-">>)

PyStr(s) == Scalar("str", 0, 0, s)

Pair(k, v) == [k |-> k, val |-> v]

Container(t, kids) == [t |-> t, n |-> 0, x |-> 0, s |-> <<>>, kids |-> kids]

\* a dict from its items in insertion order
PyDict(items) == Container("dict", items)

Elems(vals) == [j \in 1..Len(vals) |-> Pair(<<>>, vals[j])]

PyList(vals) == Container("list", Elems(vals))

PyTuple(vals) == Container("tuple", Elems(vals))

\* a set, its elements in iteration order
PySet(vals) == Container("set", Elems(vals))

IsDict(v) == v.t = "dict"

IsList(v) == v.t = "list"

Keys(d) == [j \in 1..Len(d.kids) |-> d.kids[j].k]

Values(d) == [j \in 1..Len(d.kids) |-> d.kids[j].val]

KeySet(d) == {d.kids[j].k : j \in 1..Len(d.kids)}

HasKey(d, k) == \E j \in 1..Len(d.kids) : d.kids[j].k = k

\* d[k]
Get(d, k) == d.kids[CHOOSE j \in 1..Len(d.kids) : d.kids[j].k = k].val

\* d[k] = v: a present key keeps its place and takes the new value
DictSet(d, k, v) == IF HasKey(d, k) THEN PyDict([j \in 1..Len(d.kids) |-> IF d.kids[j].k = k THEN Pair(k, v) ELSE d.kids[j]]) ELSE PyDict(Append(d.kids, Pair(k, v)))

IsNumber(v) == v.t \in {"bool", "int", "float"}

RECURSIVE PyEq(_, _)
\* a == b: numbers by value (True == 1 == 1.0, NaN equal to nothing), dicts without
\* regard to order, lists and tuples element by element
PyEq(a, b) ==
  IF IsNumber(a) /\ IsNumber(b) THEN
    IF a.s = <<"n", "a", "n">> \/ b.s = <<"n", "a", "n">> THEN FALSE
    ELSE IF a.s \in {<<"i", "n", "f">>, <<"-", "i", "n", "f">>} \/ b.s \in {<<"i", "n", "f">>, <<"-", "i", "n", "f">>} THEN a.s = b.s
    ELSE NormFloat(a.n, a.x) = NormFloat(b.n, b.x)
  ELSE IF a.t # b.t THEN FALSE
  ELSE IF a.t = "dict" THEN
    /\ Len(a.kids) = Len(b.kids)
    /\ \A j \in 1..Len(a.kids) : HasKey(b, a.kids[j].k) /\ PyEq(a.kids[j].val, Get(b, a.kids[j].k))
  ELSE IF a.t \in {"list", "tuple"} THEN
    /\ Len(a.kids) = Len(b.kids)
    /\ \A j \in 1..Len(a.kids) : PyEq(a.kids[j].val, b.kids[j].val)
  ELSE a = b

(***************************************************************************)
(* str(), repr(), int() and float()                                        *)
(***************************************************************************)
RECURSIVE NatStr(_)
NatStr(n) == IF n < 10 THEN <<Digits[n + 1]>> ELSE NatStr(n \div 10) \o <<Digits[(n % 10) + 1]>>

\* str(n) of an int
IntStr(n) == IF n < 0 THEN <<"-">> \o NatStr(-n) ELSE NatStr(n)

RECURSIVE Zeros(_)
Zeros(n) == IF n <= 0 THEN <<>> ELSE <<"0">> \o Zeros(n - 1)

\* repr of a float: the shortest digits, fixed notation while the decimal point lies
\* in -4 < decpt <= 16, exponent notation outside
FloatStr(v) ==
  IF v.s = <<"-">> THEN <<"-", "0", ".", "0">>
  ELSE IF v.s # <<>> THEN v.s
  ELSE IF v.n = 0 THEN <<"0", ".", "0">>
  ELSE LET D == NatStr(IF v.n < 0 THEN -v.n ELSE v.n)
           nd == Len(D)
           decpt == nd + v.x
           sign == IF v.n < 0 THEN <<"-">> ELSE <<>>
           e == decpt - 1
       IN IF decpt > -4 /\ decpt <= 16 THEN
            IF decpt <= 0 THEN sign \o <<"0", ".">> \o Zeros(-decpt) \o D
            ELSE IF decpt >= nd THEN sign \o D \o Zeros(decpt - nd) \o <<".", "0">>
            ELSE sign \o Slice(D, 1, decpt) \o <<".">> \o Slice(D, decpt + 1, nd)
          ELSE sign \o <<D[1]>> \o (IF nd > 1 THEN <<".">> \o Slice(D, 2, nd) ELSE <<>>) \o <<"e">>
               \o (IF e < 0 THEN <<"-">> ELSE <<"+">>)
               \o (IF (IF e < 0 THEN -e ELSE e) < 10 THEN <<"0">> ELSE <<>>) \o NatStr(IF e < 0 THEN -e ELSE e)

AllDigits(s) == Len(s) > 0 /\ \A k \in 1..Len(s) : IsDigit(s[k])

Unsigned(s) == IF Len(s) > 0 /\ s[1] \in {"+", "-"} THEN Tail(s) ELSE s

IsNegative(s) == Len(s) > 0 /\ s[1] = "-"

\* int(s) succeeds: optional sign and digits, surrounding whitespace ignored (the
\* digit-group underscore of Python literals, as in 1_0, is not modelled: no text of
\* the model holds an underscore)
IsIntLiteral(s) == AllDigits(Unsigned(Strip(s)))

RECURSIVE DigitsVal(_)
DigitsVal(s) == IF Len(s) = 0 THEN 0 ELSE DigitsVal(Slice(s, 1, Len(s) - 1)) * 10 + DigitVal(s[Len(s)])

\* int(s)
IntVal(s) == IF IsNegative(Strip(s)) THEN -DigitsVal(Unsigned(Strip(s))) ELSE DigitsVal(Unsigned(Strip(s)))

UpperCase == <<"A", "B", "C", "D", "E", "F", "G", "H", "I", "J", "K", "L", "M", "N", "O", "P", "Q", "R", "S", "T", "U", "V", "W", "X", "Y", "Z">>

LowerCase == <<"a", "b", "c", "d", "e", "f", "g", "h", "i", "j", "k", "l", "m", "n", "o", "p", "q", "r", "s", "t", "u", "v", "w", "x", "y", "z">>

\* c.lower()
Lower(c) == IF \E k \in 1..26 : UpperCase[k] = c THEN LowerCase[CHOOSE k \in 1..26 : UpperCase[k] = c] ELSE c

\* str.lower()
LowerStr(s) == [k \in 1..Len(s) |-> Lower(s[k])]

\* the mantissa and exponent texts of a decimal literal: <<mantissa, has exponent, exponent>>
MantExp(u) == LET l == LowerStr(u) IN IF Contains(l, "e") THEN <<Slice(u, 1, Find(l, "e") - 1), TRUE, Slice(u, Find(l, "e") + 1, Len(u))>> ELSE <<u, FALSE, <<>>>>

IsMantissa(m) == LET p == Partition(m, ".") IN (Len(p[1]) = 0 \/ AllDigits(p[1])) /\ (Len(p[2]) = 0 \/ AllDigits(p[2])) /\ Len(p[1]) + Len(p[2]) > 0

\* float(s) succeeds: inf, infinity, nan, or digits with an optional point and exponent
IsFloatLiteral(s) ==
  LET u == Unsigned(Strip(s))
      me == MantExp(u)
  IN \/ LowerStr(u) \in {<<"i", "n", "f">>, <<"n", "a", "n">>, <<"i", "n", "f", "i", "n", "i", "t", "y">>}
     \/ IsMantissa(me[1]) /\ (me[2] => AllDigits(Unsigned(me[3])))

\* float(s), for s with IsFloatLiteral(s)
FloatVal(s) ==
  LET t == Strip(s)
      u == Unsigned(t)
      l == LowerStr(u)
      me == MantExp(u)
      p == Partition(me[1], ".")
      m == DigitsVal(p[1] \o p[2])
      e == IF me[2] THEN (IF IsNegative(me[3]) THEN -DigitsVal(Unsigned(me[3])) ELSE DigitsVal(Unsigned(me[3]))) ELSE 0
  IN IF l = <<"n", "a", "n">> THEN NaN
     ELSE IF l \in {<<"i", "n", "f">>, <<"i", "n", "f", "i", "n", "i", "t", "y">>} THEN (IF IsNegative(t) THEN NegInf ELSE Inf)
     ELSE IF m = 0 THEN (IF IsNegative(t) THEN NegZero ELSE PyFloat(0, 0))
     ELSE PyFloat(IF IsNegative(t) THEN -m ELSE m, e - Len(p[2]))

RECURSIVE StrEscape(_, _)
\* the body of repr(s) for a str quoted with q
StrEscape(s, q) ==
  IF Len(s) = 0 THEN <<>>
  ELSE (CASE s[1] = "\\" -> <<"\\", "\\">>
          [] s[1] = "\n" -> <<"\\", "n">>
          [] s[1] = "\t" -> <<"\\", "t">>
          [] s[1] = "\r" -> <<"\\", "r">>
          [] s[1] = q -> <<"\\", q>>
          [] OTHER -> <<s[1]>>) \o StrEscape(Tail(s), q)

\* repr(s) of a str: single quotes, double quotes when s holds ' and no "
StrRepr(s) == LET q == IF Contains(s, "'") /\ ~Contains(s, "\"") THEN "\"" ELSE "'" IN <<q>> \o StrEscape(s, q) \o <<q>>

RECURSIVE PyRepr(_)
\* repr(v), which is what str(v) gives for a dict or a list
PyRepr(v) ==
  CASE v.t = "NoneType" -> <<"N", "o", "n", "e">>
    [] v.t = "bool" -> IF v.n = 1 THEN <<"T", "r", "u", "e">> ELSE <<"F", "a", "l", "s", "e">>
    [] v.t = "int" -> IntStr(v.n)
    [] v.t = "float" -> FloatStr(v)
    [] v.t = "str" -> StrRepr(v.s)
    [] v.t = "dict" -> <<"{">> \o Join([j \in 1..Len(v.kids) |-> StrRepr(v.kids[j].k) \o <<":", " ">> \o PyRepr(v.kids[j].val)], <<",", " ">>) \o <<"}">>
    [] v.t = "list" -> <<"[">> \o Join([j \in 1..Len(v.kids) |-> PyRepr(v.kids[j].val)], <<",", " ">>) \o <<"]">>
    [] OTHER -> <<"?">>

(***************************************************************************)
(* toon_parser.py: scalars                                                 *)
(***************************************************************************)
ReservedWords == {<<"t", "r", "u", "e">>, <<"f", "a", "l", "s", "e">>, <<"n", "u", "l", "l">>}

\* the characters of ":[],-\n\r\t"
SpecialChars == {":", "[", "]", ",", "-", "\n", "\r", "\t"}

_needs_quotes(value) ==
  \/ Len(value) = 0
  \/ value \in ReservedWords
  \/ (IsDigit(value[1]) \/ value[1] \in {"+", "-"}) /\ IsFloatLiteral(value)
  \/ IsSpace(value[1]) \/ IsSpace(value[Len(value)])
  \/ ContainsAny(value, SpecialChars)

_format_primitive(value) ==
  CASE value.t = "NoneType" -> <<"n", "u", "l", "l">>
    [] value.t = "bool" -> IF value.n = 1 THEN <<"t", "r", "u", "e">> ELSE <<"f", "a", "l", "s", "e">>
    [] value.t = "int" -> IntStr(value.n)
    [] value.t = "float" -> FloatStr(value)
    [] value.t = "str" -> IF _needs_quotes(value.s) THEN <<"\"">> \o value.s \o <<"\"">> ELSE value.s
    [] OTHER -> PyRepr(value)

\* a parser that tells null, true and false whatever their case
ParsePrimitiveIgnoringCase(value0) ==
  LET value == LowerStr(Strip(value0))
  IN IF value = <<"n", "u", "l", "l">> THEN PyNone
     ELSE IF value = <<"t", "r", "u", "e">> THEN PyBool(TRUE)
     ELSE IF value = <<"f", "a", "l", "s", "e">> THEN PyBool(FALSE)
     ELSE PyStr(Strip(value0))

_parse_primitive(value0) ==
  LET value == Strip(value0)
  IN IF StartsWith(value, <<"\"">>) /\ EndsWith(value, <<"\"">>) THEN PyStr(Slice(value, 2, Len(value) - 1))
     ELSE IF value = <<"n", "u", "l", "l">> THEN PyNone
     ELSE IF value = <<"t", "r", "u", "e">> THEN PyBool(TRUE)
     ELSE IF value = <<"f", "a", "l", "s", "e">> THEN PyBool(FALSE)
     ELSE IF Contains(value, ".") /\ IsFloatLiteral(value) THEN FloatVal(value)
     ELSE IF ~Contains(value, ".") /\ IsIntLiteral(value) THEN PyInt(IntVal(value))
     ELSE PyStr(value)

(***************************************************************************)
(* toon_parser.py: encode_to_toon                                          *)
(***************************************************************************)
\* ToonEncodeOptions() and ToonDecodeOptions() with their defaults
DefaultOptions == [delimiter |-> <<",">>, indent |-> 2, length_marker |-> FALSE, strict |-> TRUE]

length_prefix(opts) == IF opts.length_marker THEN <<"#">> ELSE <<>>

\* all(isinstance(item, dict) and set(item.keys()) == set(val[0].keys()) for item in val)
IsUniform(val) == \A j \in 1..Len(val.kids) : IsDict(val.kids[j].val) /\ KeySet(val.kids[j].val) = KeySet(val.kids[1].val)

\* TabularRow with the values taken in the item's own order (item.values())
TabularRowOwnOrder(item, keys, opts) == Join([j \in 1..Len(item.kids) |-> _format_primitive(item.kids[j].val)], opts.delimiter)

\* one data row: the item's values in the order of keys, joined by the delimiter
TabularRow(item, keys, opts) == Join([j \in 1..Len(keys) |-> _format_primitive(Get(item, keys[j]))], opts.delimiter)

\* the header line, the column-name row and the data rows of a tabular array
TabularLines(key, val, prefix, opts) ==
  LET keys == Keys(val.kids[1].val)
  IN <<prefix \o key \o <<" ", "[">> \o length_prefix(opts) \o IntStr(Len(val.kids)) \o opts.delimiter \o <<"]">>>>
     \o <<prefix \o Spaces(opts.indent) \o Join(keys, opts.delimiter)>>
     \o [j \in 1..Len(val.kids) |-> prefix \o Spaces(opts.indent) \o TabularRow(val.kids[j].val, keys, opts)]

\* the single line of a primitive array
PrimitiveLine(key, val, prefix, opts) ==
  prefix \o key \o <<" ", "[">> \o length_prefix(opts) \o IntStr(Len(val.kids)) \o <<"]", ":", " ">>
  \o Join([j \in 1..Len(val.kids) |-> _format_primitive(val.kids[j].val)], <<",", " ">>)

RECURSIVE format_value(_, _, _)
RECURSIVE FormatItems(_, _, _)
RECURSIVE FormatListItems(_, _, _)
\* the lines format_value appends for value at the given level
format_value(value, level, opts) ==
  IF IsDict(value) THEN FormatItems(value.kids, level, opts)
  ELSE IF IsList(value) THEN FormatListItems(value.kids, level, opts)
  ELSE <<>>

\* for key, val in value.items()
FormatItems(kids, level, opts) ==
  IF Len(kids) = 0 THEN <<>>
  ELSE LET key == kids[1].k
           val == kids[1].val
           prefix == Spaces(opts.indent * level)
           here == IF IsDict(val) THEN <<prefix \o key \o <<":">>>> \o format_value(val, level + 1, opts)
                   ELSE IF IsList(val) /\ Len(val.kids) > 0 /\ IsDict(val.kids[1].val) THEN
                     IF IsUniform(val) THEN TabularLines(key, val, prefix, opts)
                     ELSE <<prefix \o key \o <<" ", "[">> \o length_prefix(opts) \o IntStr(Len(val.kids)) \o <<"]">>>>
                          \o FormatListItems([j \in 1..Len(val.kids) |-> Pair(<<"-">>, val.kids[j].val)], level, opts)
                   ELSE IF IsList(val) THEN <<PrimitiveLine(key, val, prefix, opts)>>
                   ELSE <<prefix \o key \o <<":", " ">> \o _format_primitive(val)>>
       IN here \o FormatItems(Tail(kids), level, opts)

\* for item in value: the items of a top-level list at the same level (k = <<>>), the
\* items of a list array (k = "-") after a "- " line, two levels deeper
FormatListItems(kids, level, opts) ==
  IF Len(kids) = 0 THEN <<>>
  ELSE (IF kids[1].k = <<"-">>
        THEN <<Spaces(opts.indent * level) \o Spaces(opts.indent) \o <<"-", " ">>>> \o format_value(kids[1].val, level + 2, opts)
        ELSE format_value(kids[1].val, level, opts))
       \o FormatListItems(Tail(kids), level, opts)

\* "\n".join(lines)
encode_to_toon(value, opts) == Join(format_value(value, 0, opts), <<"\n">>)

(***************************************************************************)
(* toon_parser.py: decode_from_toon.  Line indices are Python's (0-based): *)
(* lines[i] of the source is lines[i + 1] here.                            *)
(***************************************************************************)
\* len(line) - len(line.lstrip())
Indent(line) == LeadingSpaces(line)

IsBlank(line) == Len(Strip(line)) = 0

_parse_primitive_array(value) ==
  LET items == Split(value, ",")
      kept == SelectSeq(items, LAMBDA item : Len(Strip(item)) > 0)
  IN PyList([j \in 1..Len(kept) |-> _parse_primitive(Strip(kept[j]))])

RECURSIVE NestedObjectLoop(_, _, _, _)
\* the while loop of _parse_nested_object: <<obj, i>> when it ends
NestedObjectLoop(ls, k, base_indent, obj) ==
  IF k >= Len(ls) THEN <<obj, k>>
  ELSE LET line == ls[k + 1]
           stripped == Strip(line)
           kv == Partition(stripped, ":")
       IN IF IsBlank(line) THEN NestedObjectLoop(ls, k + 1, base_indent, obj)
          ELSE IF Indent(line) < base_indent THEN <<obj, k>>
          ELSE IF Contains(stripped, ":") THEN NestedObjectLoop(ls, k + 1, base_indent, DictSet(obj, Strip(kv[1]), _parse_primitive(Strip(kv[2]))))
          ELSE NestedObjectLoop(ls, k + 1, base_indent, obj)

\* returns <<obj, i - 1>>
_parse_nested_object(ls, start_idx, base_indent, opts) ==
  LET r == NestedObjectLoop(ls, start_idx, base_indent, PyDict(<<>>)) IN <<r[1], r[2] - 1>>

RECURSIVE RowDict(_, _, _)
\* {columns[j]: _parse_primitive(values[j]) for j in range(len(columns))}
RowDict(columns, values, j) == IF j = 0 THEN PyDict(<<>>) ELSE DictSet(RowDict(columns, values, j - 1), columns[j], _parse_primitive(values[j]))

StripAll(parts) == [j \in 1..Len(parts) |-> Strip(parts[j])]

RECURSIVE TabularLoop(_, _, _, _, _)
\* the while loop of _parse_tabular_array: <<items, i>> when it ends
TabularLoop(ls, k, base_indent, columns, items) ==
  IF k >= Len(ls) THEN <<items, k>>
  ELSE LET line == ls[k + 1]
           values == StripAll(Split(Strip(line), ","))
       IN IF IsBlank(line) THEN TabularLoop(ls, k + 1, base_indent, columns, items)
          ELSE IF Indent(line) < base_indent THEN <<items, k>>
          ELSE IF Len(values) = Len(columns) THEN TabularLoop(ls, k + 1, base_indent, columns, Append(items, RowDict(columns, values, Len(columns))))
          ELSE TabularLoop(ls, k + 1, base_indent, columns, items)

\* returns <<items, i - 1>>, or <<[], start_idx>> past the last line
_parse_tabular_array(ls, start_idx, base_indent, opts) ==
  IF start_idx >= Len(ls) THEN <<PyList(<<>>), start_idx>>
  ELSE LET columns == StripAll(Split(Strip(ls[start_idx + 1]), ","))
           r == TabularLoop(ls, start_idx + 1, base_indent, columns, <<>>)
       IN <<PyList(r[1]), r[2] - 1>>

RECURSIVE ListLoop(_, _, _, _, _)
\* the while loop of _parse_list_array: <<items, i>> when it ends
ListLoop(ls, k, base_indent, items, opts) ==
  IF k >= Len(ls) THEN <<items, k>>
  ELSE LET line == ls[k + 1]
           r == _parse_nested_object(ls, k + 1, Indent(line) + opts.indent, opts)
       IN IF IsBlank(line) THEN ListLoop(ls, k + 1, base_indent, items, opts)
          ELSE IF Indent(line) < base_indent THEN <<items, k>>
          ELSE IF StartsWith(Strip(line), <<"-">>) THEN ListLoop(ls, r[2] + 1, base_indent, Append(items, r[1]), opts)
          ELSE ListLoop(ls, k + 1, base_indent, items, opts)

\* returns <<items, i - 1>>
_parse_list_array(ls, start_idx, base_indent, opts) ==
  LET r == ListLoop(ls, start_idx, base_indent, <<>>, opts) IN <<PyList(r[1]), r[2] - 1>>

\* lines = toon_string.strip().split("\n")
DecodeLines(s) == Split(Strip(s), "\n")

\* one iteration of the main loop of decode_from_toon at line k: <<result, i>> after it
DecodeIteration(ls, k, res, opts) ==
  LET line == ls[k + 1]
      indent_level == Indent(line)
      stripped == Strip(line)
      kv == Partition(stripped, ":")
      key == Strip(kv[1])
      value == Strip(kv[2])
      nested == _parse_nested_object(ls, k + 1, indent_level + opts.indent, opts)
      array_key == Strip(Slice(key, 1, Find(key, "[") - 1))
      array_info == RStripChar(Slice(key, Find(key, "[") + 1, Len(key)), "]")
      tab == _parse_tabular_array(ls, k + 1, indent_level + opts.indent, opts)
      lst == _parse_list_array(ls, k + 1, indent_level + opts.indent, opts)
  IN IF IsBlank(line) THEN <<res, k + 1>>
     ELSE IF Contains(stripped, ":") /\ ~StartsWith(stripped, <<"-">>) THEN
       IF k + 1 < Len(ls) /\ Indent(ls[k + 2]) > indent_level THEN <<DictSet(res, key, nested[1]), nested[2]>>
       ELSE IF Contains(key, "[") THEN
         IF Contains(array_info, ",") THEN <<DictSet(res, array_key, tab[1]), tab[2] + 1>>
         ELSE IF Contains(value, ":") THEN <<DictSet(res, array_key, _parse_primitive_array(value)), k + 1>>
         ELSE <<DictSet(res, array_key, lst[1]), lst[2] + 1>>
       ELSE <<DictSet(res, key, _parse_primitive(value)), k + 1>>
     ELSE <<res, k + 1>>

(***************************************************************************)
(* The documents given to encode_to_toon                                   *)
(***************************************************************************)
\* the longest primitive array
MaxElems == 2

\* the most elements of an array of objects
MaxRows == 2

\* the deepest chain of nested objects
MaxDepth == 2

SeqsUpTo(S, n) == UNION {[1..m -> S] : m \in 0..n}

\* "", "true", "123", " x ", "a,b", "a:b"
AdversarialStrings == {<<>>, <<"t", "r", "u", "e">>, <<"1", "2", "3">>, <<" ", "x", " ">>, <<"a", ",", "b">>, <<"a", ":", "b">>}

Scalars == {PyStr(s) : s \in AdversarialStrings} \cup {PyStr(<<"x">>), PyStr(<<"p", "\n", "q">>), PyNone, PyBool(TRUE), PyInt(12), PyFloat(15, -1)}

\* the elements of an array of objects: keys a and b in either order, or a alone
Rows == {PyDict(<<Pair(<<"a">>, va), Pair(<<"b">>, vb)>>) : va \in {PyInt(1), PyStr(<<"p", "\n", "q">>)}, vb \in {PyStr(<<"x">>), PyDict(<<Pair(<<"c">>, PyInt(1))>>)}}
        \cup {PyDict(<<Pair(<<"b">>, vb), Pair(<<"a">>, va)>>) : va \in {PyInt(2), PyStr(<<"y">>)}, vb \in {PyStr(<<"z">>), PyInt(3)}}
        \cup {PyDict(<<Pair(<<"a">>, va)>>) : va \in {PyInt(1), PyStr(<<"x">>)}}

RECURSIVE Nest(_, _)
\* v under a chain of d nested objects
Nest(v, d) == IF d = 0 THEN v ELSE PyDict(<<Pair(<<"o">>, Nest(v, d - 1))>>)

FlatDocs == {PyDict(<<Pair(<<"k">>, v)>>) : v \in Scalars} \cup {PyDict(<<Pair(<<"k">>, v), Pair(<<"j">>, PyInt(1))>>) : v \in Scalars}

NestedDocs == {Nest(PyDict(<<Pair(<<"a">>, v)>>), d) : v \in Scalars, d \in 1..MaxDepth}
              \cup {PyDict(<<Pair(<<"o">>, PyDict(<<Pair(<<"a">>, v)>>)), Pair(<<"j">>, PyInt(1))>>) : v \in Scalars}

PrimitiveDocs == {PyDict(<<Pair(<<"t">>, PyList(vs))>>) : vs \in SeqsUpTo(Scalars, MaxElems)}

ObjectArrayDocs == {PyDict(<<Pair(<<"u">>, PyList(rs))>>) : rs \in SeqsUpTo(Rows, MaxRows) \ {<<>>}}

\* {"items": []}
ScenarioC == PyDict(<<Pair(<<"i", "t", "e", "m", "s">>, PyList(<<>>))>>)

Docs == FlatDocs \cup NestedDocs \cup PrimitiveDocs \cup ObjectArrayDocs \cup {ScenarioC}

(***************************************************************************)
(* encode_to_toon followed by decode_from_toon                             *)
(***************************************************************************)
Init ==
  /\ pc = "start"
  /\ data \in Docs
  /\ options = DefaultOptions
  /\ toon_string = <<>>
  /\ lines = <<>>
  /\ i = 0
  /\ result = PyDict(<<>>)
  /\ out = <<>>

\* toon_string = encode_to_toon(data); lines is the encoder's list of lines
Encode ==
  /\ pc = "start"
  /\ lines' = format_value(data, 0, options)
  /\ toon_string' = encode_to_toon(data, options)
  /\ pc' = "encoded"
  /\ UNCHANGED <<data, options, i, result, out>>

\* decode_from_toon(toon_string) up to its main loop
DecodeStart ==
  /\ pc = "encoded"
  /\ lines' = DecodeLines(toon_string)
  /\ i' = 0
  /\ result' = PyDict(<<>>)
  /\ pc' = "decoding"
  /\ UNCHANGED <<data, options, toon_string, out>>

\* one iteration of while i < len(lines)
DecodeStep ==
  /\ pc = "decoding"
  /\ i < Len(lines)
  /\ result' = DecodeIteration(lines, i, result, options)[1]
  /\ i' = DecodeIteration(lines, i, result, options)[2]
  /\ UNCHANGED <<pc, data, options, toon_string, lines, out>>

\* return result
DecodeReturn ==
  /\ pc = "decoding"
  /\ i >= Len(lines)
  /\ pc' = "done"
  /\ UNCHANGED <<data, options, toon_string, lines, i, result, out>>

Next == Encode \/ DecodeStart \/ DecodeStep \/ DecodeReturn

Spec == Init /\ [][Next]_vars

(***************************************************************************)
(* Properties of encode_to_toon and decode_from_toon                       *)
(***************************************************************************)
IsScalar(v) == v.t \in {"NoneType", "bool", "int", "float", "str"}

\* a non-empty list of dicts that all have the key set of the first
IsSameKeyObjects(v) == IsList(v) /\ Len(v.kids) > 0 /\ \A j \in 1..Len(v.kids) : IsDict(v.kids[j].val) /\ KeySet(v.kids[j].val) = KeySet(v.kids[1].val)

\* same-key objects whose values are all scalars
IsTabularShape(v) == IsSameKeyObjects(v) /\ \A j \in 1..Len(v.kids) : \A c \in 1..Len(v.kids[j].val.kids) : IsScalar(v.kids[j].val.kids[c].val)

\* the line "key [N,]"
TabularHeader(key, n) == key \o <<" ", "[">> \o IntStr(n) \o <<",", "]">>

\* C1: round trip: when decode_from_toon(encode_to_toon(data)) returns, the value
\* returned is equal to data.
C1_RoundTrip == pc = "done" => PyEq(result, data)

\* C2: adversarial quoting round trip: every adversarial string that is the value of
\* a top-level key, or an element of a top-level primitive array, is emitted inside
\* double quotes by encode_to_toon and is returned by decode_from_toon at the same
\* place as exactly the same string.
C2_AdversarialRoundTrip ==
  pc = "done" =>
    \A p \in 1..Len(data.kids) :
      LET k == data.kids[p].k
          v == data.kids[p].val
      IN /\ (v.t = "str" /\ v.s \in AdversarialStrings) =>
              /\ IsSubstring(toon_string, <<"\"">> \o v.s \o <<"\"">>)
              /\ HasKey(result, k) /\ Get(result, k) = v
         /\ (IsList(v) /\ \A e \in 1..Len(v.kids) : IsScalar(v.kids[e].val)) =>
              \A e \in 1..Len(v.kids) :
                (v.kids[e].val.t = "str" /\ v.kids[e].val.s \in AdversarialStrings) =>
                  /\ IsSubstring(toon_string, <<"\"">> \o v.kids[e].val.s \o <<"\"">>)
                  /\ HasKey(result, k)
                  /\ IsList(Get(result, k))
                  /\ Len(Get(result, k).kids) >= e
                  /\ Get(result, k).kids[e].val = v.kids[e].val

\* C6: the tabular form (a header "key [N,]") is emitted only for an array whose
\* elements are objects with one key set and scalar values.
C6_TabularOnlyForScalarObjects ==
  pc = "encoded" =>
    \A p \in 1..Len(data.kids) :
      (IsList(data.kids[p].val) /\ \E l \in 1..Len(lines) : lines[l] = TabularHeader(data.kids[p].k, Len(data.kids[p].val.kids)))
        => IsTabularShape(data.kids[p].val)

C8_TabularLineCount ==
  (pc = "encoded" /\ Len(data.kids) = 1 /\ IsTabularShape(data.kids[1].val)) =>
    Len(Split(toon_string, "\n")) = 2 + Len(data.kids[1].val.kids)

\* C12: Scenario C: encode_to_toon({"items": []}) is exactly the one line
\* "items [0]", and decoding returns an object with the key items mapped to an
\* empty array.
C12_ScenarioC ==
  /\ (pc = "encoded" /\ data = ScenarioC) => toon_string = <<"i", "t", "e", "m", "s", " ", "[", "0", "]">>
  /\ (pc = "done" /\ data = ScenarioC) => (HasKey(result, <<"i", "t", "e", "m", "s">>) /\ Get(result, <<"i", "t", "e", "m", "s">>) = PyList(<<>>))

(***************************************************************************)
(* encode_to_toon with each permitted delimiter, then decode_from_toon     *)
(***************************************************************************)
Delimiters == {",", "\t", "|"}

InitDelimiter ==
  /\ pc = "start"
  /\ data \in PrimitiveDocs \cup ObjectArrayDocs
  /\ options \in {[DefaultOptions EXCEPT !.delimiter = <<d>>] : d \in Delimiters}
  /\ toon_string = <<>>
  /\ lines = <<>>
  /\ i = 0
  /\ result = PyDict(<<>>)
  /\ out = <<>>

SpecDelimiter == InitDelimiter /\ [][Next]_vars

\* C13: delimiter option: with each delimiter d, encode_to_toon joins the values of
\* a primitive array and the cells of a tabular row with d, and decode_from_toon
\* returns the original document.
C13_DelimiterOption ==
  LET key == data.kids[1].k
      v == data.kids[1].val
      cols == Keys(v.kids[1].val)
  IN /\ (pc = "encoded" /\ Len(v.kids) > 0 /\ \A e \in 1..Len(v.kids) : IsScalar(v.kids[e].val)) =>
          lines = <<key \o <<" ", "[">> \o IntStr(Len(v.kids)) \o <<"]", ":", " ">>
                    \o Join([e \in 1..Len(v.kids) |-> _format_primitive(v.kids[e].val)], options.delimiter)>>
     /\ (pc = "encoded" /\ IsTabularShape(v)) =>
          \A r \in 1..Len(v.kids) :
            lines[2 + r] = Spaces(options.indent) \o Join([c \in 1..Len(cols) |-> _format_primitive(Get(v.kids[r].val, cols[c]))], options.delimiter)
     /\ pc = "done" => PyEq(result, data)

(***************************************************************************)
(* toon_parser-old.py: class ToonParser, encoding.  A parser object is the *)
(* record self of its fields strict, indent and delimiter.  An exception   *)
(* that leaves encode is the one-element text <<name>>; a text that holds   *)
(* such an element stands for the exception.                               *)
(***************************************************************************)
\* ToonParser(strict=True, indent=2, delimiter=",")
ToonParser(strict, indent, delimiter) == [strict |-> strict, indent |-> indent, delimiter |-> delimiter]

Raised(text) == \E k \in 1..Len(text) : text[k] \in {"ValueError", "IndexError", "TypeError"}

\* isinstance(item, (str, int, float, bool, type(None)))
IsPrimitive(v) == v.t \in {"str", "int", "float", "bool", "NoneType"}

\* _detect_array_type without the test that every value of every element is
\* primitive
DetectIgnoringValues(arr) ==
  IF Len(arr.kids) = 0 THEN "LIST"
  ELSE IF \A j \in 1..Len(arr.kids) : IsPrimitive(arr.kids[j].val) THEN "PRIMITIVE"
  ELSE IF /\ \A j \in 1..Len(arr.kids) : IsDict(arr.kids[j].val)
          /\ \A j \in 1..Len(arr.kids) : KeySet(arr.kids[j].val) = KeySet(arr.kids[1].val)
       THEN "TABULAR"
  ELSE "LIST"

_detect_array_type(arr) ==
  IF Len(arr.kids) = 0 THEN "LIST"
  ELSE IF \A j \in 1..Len(arr.kids) : IsPrimitive(arr.kids[j].val) THEN "PRIMITIVE"
  ELSE IF /\ \A j \in 1..Len(arr.kids) : IsDict(arr.kids[j].val)
          /\ \A j \in 1..Len(arr.kids) : KeySet(arr.kids[j].val) = KeySet(arr.kids[1].val)
          /\ \A j \in 1..Len(arr.kids) : \A c \in 1..Len(arr.kids[j].val.kids) : IsPrimitive(arr.kids[j].val.kids[c].val)
       THEN "TABULAR"
  ELSE "LIST"

\* s.replace('.', '').replace('-', '').isdigit()
LooksLikeNumber(s) == AllDigits(SelectSeq(s, LAMBDA c : c \notin {".", "-"}))

_encode_string(self, s) ==
  IF \/ Len(s) = 0
     \/ LowerStr(s) \in ReservedWords
     \/ LooksLikeNumber(s)
     \/ s # Strip(s)
     \/ ContainsAny(s, {":", "[", "]", "-"}) \/ IsSubstring(s, self.delimiter)
     \/ Contains(s, "\n") \/ Contains(s, "\t")
  THEN <<"\"">> \o Replace(Replace(Replace(Replace(s, <<"\\">>, <<"\\", "\\">>), <<"\"">>, <<"\\", "\"">>), <<"\n">>, <<"\\", "n">>), <<"\t">>, <<"\\", "t">>) \o <<"\"">>
  ELSE s

RECURSIVE _encode_value(_, _, _)
RECURSIVE _encode_object(_, _, _)
RECURSIVE _encode_array(_, _, _)
RECURSIVE _encode_list_array(_, _, _)
_encode_value(self, value, level) ==
  CASE value.t = "NoneType" -> <<"n", "u", "l", "l">>
    [] value.t = "bool" -> IF value.n = 1 THEN <<"t", "r", "u", "e">> ELSE <<"f", "a", "l", "s", "e">>
    [] value.t = "int" -> IntStr(value.n)
    [] value.t = "float" -> FloatStr(value)
    [] value.t = "str" -> _encode_string(self, value.s)
    [] value.t = "dict" -> _encode_object(self, value, level)
    [] value.t = "list" -> _encode_array(self, value, level)
    [] OTHER -> <<"ValueError">>

\* the text of one key and its value, as _encode_object appends it to lines
EncodeEntry(self, key, value, level) ==
  LET indent_str == Spaces(self.indent * level)
  IN IF IsDict(value) THEN <<indent_str \o key \o <<":">>, _encode_object(self, value, level + 1)>>
     ELSE IF IsList(value) THEN <<indent_str \o key \o <<" ">> \o _encode_array(self, value, level)>>
     ELSE <<indent_str \o key \o <<":", " ">> \o _encode_value(self, value, level)>>

RECURSIVE Concat(_)
\* the concatenation of a sequence of sequences
Concat(ss) == IF Len(ss) = 0 THEN <<>> ELSE ss[1] \o Concat(Tail(ss))

_encode_object(self, obj, level) ==
  Join(Concat([j \in 1..Len(obj.kids) |-> EncodeEntry(self, obj.kids[j].k, obj.kids[j].val, level)]), <<"\n">>)

_encode_primitive_array(self, arr) ==
  <<"[">> \o IntStr(Len(arr.kids)) \o <<"]", ":", " ">> \o Join([j \in 1..Len(arr.kids) |-> _encode_value(self, arr.kids[j].val, 0)], <<",", " ">>)

_encode_tabular_array(self, arr, level) ==
  IF Len(arr.kids) = 0 THEN <<"[", "0", ",", "]">>
  ELSE LET keys == Keys(arr.kids[1].val)
           indent_str == Spaces(self.indent * (level + 1))
           header == Join(keys, self.delimiter)
           row(item) == Join([c \in 1..Len(keys) |-> _encode_value(self, Get(item, keys[c]), 0)], self.delimiter)
       IN Join(<<<<"[">> \o IntStr(Len(arr.kids)) \o self.delimiter \o <<"]">>, indent_str \o header>>
               \o [j \in 1..Len(arr.kids) |-> indent_str \o row(arr.kids[j].val)], <<"\n">>)

\* the texts _encode_list_array appends to lines for one item
ListItemLines(self, item, level) ==
  LET indent_str == Spaces(self.indent * (level + 1))
      rest == Tail(item.kids)
  IN IF IsDict(item) THEN
       IF Len(item.kids) = 0 THEN <<<<"IndexError">>>>
       ELSE <<indent_str \o <<"-", " ">> \o item.kids[1].k \o <<":", " ">> \o _encode_value(self, item.kids[1].val, level + 1)>>
            \o Concat([j \in 1..Len(rest) |->
                 IF IsDict(rest[j].val) THEN <<indent_str \o <<" ", " ">> \o rest[j].k \o <<":">>, _encode_object(self, rest[j].val, level + 2)>>
                 ELSE <<indent_str \o <<" ", " ">> \o rest[j].k \o <<":", " ">> \o _encode_value(self, rest[j].val, level + 1)>>])
     ELSE <<indent_str \o <<"-", " ">> \o _encode_value(self, item, level + 1)>>

_encode_list_array(self, arr, level) ==
  Join(<<<<"[">> \o IntStr(Len(arr.kids)) \o <<"]">>>> \o Concat([j \in 1..Len(arr.kids) |-> ListItemLines(self, arr.kids[j].val, level)]), <<"\n">>)

_encode_array(self, arr, level) ==
  IF Len(arr.kids) = 0 THEN <<"[", "0", "]">>
  ELSE IF _detect_array_type(arr) = "PRIMITIVE" THEN _encode_primitive_array(self, arr)
  ELSE IF _detect_array_type(arr) = "TABULAR" THEN _encode_tabular_array(self, arr, level)
  ELSE _encode_list_array(self, arr, level)

(***************************************************************************)
(* toon_parser-old.py: _normalize_types.  A datetime or date is the value  *)
(* of tag "datetime" that carries its isoformat() text in s; a Decimal has *)
(* tag "Decimal" and the number fields of a float; a function or class has *)
(* tag "function".                                                        *)
(***************************************************************************)
DateTime(iso) == Scalar("datetime", 0, 0, iso)

\* the finite Decimal n * 10^x
Decimal(n, x) == Scalar("Decimal", n, x, <<>>)

\* Decimal("NaN"), Decimal("Infinity"), Decimal("-Infinity"), Decimal("-0")
DecimalSpecial(name) == Scalar("Decimal", 0, 0, name)

Callable == Scalar("function", 0, 0, <<>>)

RECURSIVE Pow10(_)
Pow10(e) == IF e <= 0 THEN 1 ELSE 10 * Pow10(e - 1)

IsNaN(v) == v.s = <<"n", "a", "n">>

\* a <= b for numbers other than NaN
NumLeq(a, b) ==
  IF a.s = <<"-", "i", "n", "f">> \/ b.s = <<"i", "n", "f">> THEN TRUE
  ELSE IF a.s = <<"i", "n", "f">> \/ b.s = <<"-", "i", "n", "f">> THEN FALSE
  ELSE LET m == IF a.x < b.x THEN a.x ELSE b.x IN a.n * Pow10(a.x - m) <= b.n * Pow10(b.x - m)

\* the characters of the model in code-point order
CodePoints == <<"\t", "\n", "\r", " ", "\"", "#", "'", "+", ",", "-", ".", "0", "1", "2", "3", "4", "5", "6", "7", "8", "9", ":", "A", "B", "E", "F", "I", "L", "N", "R", "S", "T", "U", "Y", "[", "\\", "]", "a", "b", "c", "d", "e", "f", "g", "h", "i", "j", "k", "l", "m", "n", "o", "p", "q", "r", "s", "t", "u", "v", "w", "x", "y", "z", "{", "|", "}">>

\* ord(c)
Ord(c) == CHOOSE k \in 1..Len(CodePoints) : CodePoints[k] = c

RECURSIVE StrLeq(_, _)
\* a <= b for strings
StrLeq(a, b) == IF Len(a) = 0 THEN TRUE ELSE IF Len(b) = 0 THEN FALSE ELSE IF a[1] = b[1] THEN StrLeq(Tail(a), Tail(b)) ELSE Ord(a[1]) < Ord(b[1])

\* a <= b, for two strings or for two numbers
Leq(a, b) == IF a.t = "str" THEN StrLeq(a.s, b.s) ELSE NumLeq(a, b)

\* the ascending arrangement of the values of kids
Ascending(kids) ==
  PyList(CHOOSE q \in [1..Len(kids) -> {kids[j].val : j \in 1..Len(kids)}] :
           /\ \A j \in 1..Len(kids) : \E c \in 1..Len(kids) : q[c] = kids[j].val
           /\ \A c \in 1..(Len(kids) - 1) : Leq(q[c], q[c + 1]))

\* sorted(list(value)).  A list of at most one element is never compared; numbers
\* sort by value and strings by code point; a set that mixes the two raises TypeError.
\* The sets of the model hold nothing else in twos.
Sorted(kids) ==
  IF Len(kids) <= 1 THEN PyList([j \in 1..Len(kids) |-> kids[j].val])
  ELSE IF \A j \in 1..Len(kids) : IsNumber(kids[j].val) /\ ~IsNaN(kids[j].val) THEN Ascending(kids)
  ELSE IF \A j \in 1..Len(kids) : kids[j].val.t = "str" THEN Ascending(kids)
  ELSE Container("TypeError", <<>>)

\* float(value) of a Decimal
DecimalToFloat(v) ==
  IF v.s = <<>> THEN PyFloat(v.n, v.x)
  ELSE IF v.s = <<"-", "0">> THEN NegZero
  ELSE Scalar("float", 0, 0, v.s)

RECURSIVE _normalize_types(_)
_normalize_types(value) ==
  IF value.t = "datetime" THEN PyStr(value.s)
  ELSE IF value.t = "Decimal" THEN DecimalToFloat(value)
  ELSE IF value.t = "tuple" THEN Container("list", value.kids)
  ELSE IF value.t \in {"set", "frozenset"} THEN Sorted(value.kids)
  ELSE IF value.t = "function" THEN PyNone
  ELSE IF value.t = "float" THEN
    IF IsNaN(value) THEN PyNone
    ELSE IF value.s \in {<<"i", "n", "f">>, <<"-", "i", "n", "f">>} THEN PyNone
    ELSE IF value.n = 0 THEN PyInt(0)
    ELSE value
  ELSE IF value.t = "dict" THEN PyDict([j \in 1..Len(value.kids) |-> Pair(value.kids[j].k, _normalize_types(value.kids[j].val))])
  ELSE IF value.t = "list" THEN PyList([j \in 1..Len(value.kids) |-> _normalize_types(value.kids[j].val)])
  ELSE value

\* ToonParser.encode
encode(self, d) == _encode_value(self, _normalize_types(d), 0)

(***************************************************************************)
(* toon_parser-old.py: class ToonParser, decoding.  A parsing method       *)
(* returns Returned(value, idx), or Raise(exception, line_number) when it  *)
(* raises; line_number is the second argument given to ToonParseError.     *)
(***************************************************************************)
Returned(val, idx) == [ok |-> TRUE, val |-> val, idx |-> idx, err |-> "", line |-> 0]

Raise(err, line) == [ok |-> FALSE, val |-> PyNone, idx |-> 0, err |-> err, line |-> line]

\* value_str[1:-1].replace('\\"', '"').replace('\\\\', '\\').replace('\\n', '\n').replace('\\t', '\t')
Unescape(body) == Replace(Replace(Replace(Replace(body, <<"\\", "\"">>, <<"\"">>), <<"\\", "\\">>, <<"\\">>), <<"\\", "n">>, <<"\n">>), <<"\\", "t">>, <<"\t">>)

_parse_value(value_str0) ==
  LET value_str == Strip(value_str0)
  IN IF value_str = <<"n", "u", "l", "l">> THEN PyNone
     ELSE IF value_str = <<"t", "r", "u", "e">> THEN PyBool(TRUE)
     ELSE IF value_str = <<"f", "a", "l", "s", "e">> THEN PyBool(FALSE)
     ELSE IF StartsWith(value_str, <<"\"">>) /\ EndsWith(value_str, <<"\"">>) THEN PyStr(Unescape(Slice(value_str, 2, Len(value_str) - 1)))
     ELSE IF Contains(value_str, ".") /\ IsFloatLiteral(value_str) THEN FloatVal(value_str)
     ELSE IF ~Contains(value_str, ".") /\ IsIntLiteral(value_str) THEN PyInt(IntVal(value_str))
     ELSE PyStr(value_str)

\* the number of leading digits of s
LeadingDigits(s) == IF \A k \in 1..Len(s) : IsDigit(s[k]) THEN Len(s) ELSE (CHOOSE k \in 1..Len(s) : ~IsDigit(s[k]) /\ \A j \in 1..(k-1) : IsDigit(s[j])) - 1

\* re.match(r'\[(\d+)([\,\t\|])?\]', line): [matched, count, delimiter, rest], rest the
\* text after the closing bracket
MatchHeader(line) ==
  LET nd == LeadingDigits(Tail(line))
      after == Slice(line, nd + 2, Len(line))
      hasDelim == Len(after) > 0 /\ after[1] \in {",", "\t", "|"}
      close == IF hasDelim THEN Tail(after) ELSE after
  IN IF Len(line) > 0 /\ line[1] = "[" /\ nd > 0 /\ Len(close) > 0 /\ close[1] = "]"
     THEN [matched |-> TRUE, count |-> DigitsVal(Slice(line, 2, nd + 1)), delimiter |-> IF hasDelim THEN <<after[1]>> ELSE <<>>, rest |-> Tail(close)]
     ELSE [matched |-> FALSE, count |-> 0, delimiter |-> <<>>, rest |-> <<>>]

\* re.match(r'\[(\d+)([\,\t\|])?\]\s*:\s*(.+)', line): [matched, count, values_str]
MatchInline(line) ==
  LET h == MatchHeader(line)
      r == LStrip(h.rest)
  IN IF h.matched /\ Len(r) > 0 /\ r[1] = ":" /\ Len(Tail(r)) > 0
     THEN [matched |-> TRUE, count |-> h.count, values_str |-> IF Len(LStrip(Tail(r))) > 0 THEN LStrip(Tail(r)) ELSE <<r[Len(r)]>>]
     ELSE [matched |-> FALSE, count |-> 0, values_str |-> <<>>]

RECURSIVE OldRowDict(_, _, _)
\* {headers[j]: self._parse_value(values[j]) for j in range(len(headers))}
OldRowDict(headers, values, j) == IF j = 0 THEN PyDict(<<>>) ELSE DictSet(OldRowDict(headers, values, j - 1), headers[j], _parse_value(values[j]))

RECURSIVE TabularRows(_, _, _, _, _, _, _)
\* for i in range(count), from row i on
TabularRows(ls, header_idx, count, delimiter, headers, r, rows) ==
  IF r >= count THEN Returned(PyList(rows), header_idx + count + 1)
  ELSE LET row_idx == header_idx + 1 + r
           values == StripAll(Split(Strip(ls[row_idx + 1]), delimiter[1]))
       IN IF row_idx >= Len(ls) THEN Raise("Array has fewer rows than declared length", row_idx)
          ELSE IF Len(values) # Len(headers) THEN Raise("Row has wrong number of values", row_idx + 1)
          ELSE TabularRows(ls, header_idx, count, delimiter, headers, r + 1, Append(rows, OldRowDict(headers, values, Len(headers))))

ToonParser_parse_tabular_array(self, ls, header_idx, base_indent, count, delimiter) ==
  IF header_idx >= Len(ls) THEN Raise("IndexError", 0)
  ELSE TabularRows(ls, header_idx, count, delimiter, StripAll(Split(Strip(ls[header_idx + 1]), delimiter[1])), 0, <<>>)

RECURSIVE ObjectItemLoop(_, _, _, _)
\* the while loop of _parse_object_item
ObjectItemLoop(ls, idx, indent, item) ==
  IF idx >= Len(ls) THEN Returned(item, idx)
  ELSE LET line == ls[idx + 1]
           stripped == Strip(line)
           kv == Partition(stripped, ":")
       IN IF Indent(line) <= indent THEN Returned(item, idx)
          ELSE IF Contains(stripped, ":") /\ ~StartsWith(stripped, <<"-">>) THEN ObjectItemLoop(ls, idx + 1, indent, DictSet(item, Strip(kv[1]), _parse_value(Strip(kv[2]))))
          ELSE ObjectItemLoop(ls, idx + 1, indent, item)

_parse_object_item(self, ls, start_idx, base_indent) ==
  LET line == ls[start_idx + 1]
      stripped == Strip(Tail(Strip(line)))
      kv == Partition(stripped, ":")
      first == IF Contains(stripped, ":") THEN DictSet(PyDict(<<>>), Strip(kv[1]), _parse_value(Strip(kv[2]))) ELSE PyDict(<<>>)
  IN ObjectItemLoop(ls, start_idx + 1, Indent(line), first)

RECURSIVE OldListLoop(_, _, _, _, _, _, _)
\* the while loop of ToonParser._parse_list_array and the check after it
OldListLoop(self, ls, start_idx, count, idx, items_found, items) ==
  IF idx < Len(ls) /\ items_found < count THEN
    LET stripped == Strip(ls[idx + 1])
        item_content == Strip(Tail(stripped))
        obj == _parse_object_item(self, ls, idx, 0)
    IN IF StartsWith(stripped, <<"-">>) THEN
         IF Contains(item_content, ":") THEN OldListLoop(self, ls, start_idx, count, obj.idx, items_found + 1, Append(items, obj.val))
         ELSE OldListLoop(self, ls, start_idx, count, idx + 1, items_found + 1, Append(items, _parse_value(item_content)))
       ELSE OldListLoop(self, ls, start_idx, count, idx + 1, items_found, items)
  ELSE IF self.strict /\ items_found # count THEN Raise("List array length mismatch", start_idx)
  ELSE Returned(PyList(items), idx)

ToonParser_parse_list_array(self, ls, start_idx, base_indent, count) == OldListLoop(self, ls, start_idx, count, start_idx, 0, <<>>)

_parse_array(self, ls, start_idx, base_indent) ==
  LET line == Strip(ls[start_idx + 1])
      m1 == MatchInline(line)
      m2 == MatchHeader(line)
      parts == Split(m1.values_str, ",")
      values == [j \in 1..Len(parts) |-> _parse_value(Strip(parts[j]))]
  IN IF m1.matched THEN
       IF self.strict /\ Len(values) # m1.count THEN Raise("Array length mismatch", start_idx + 1)
       ELSE Returned(PyList(values), start_idx + 1)
     ELSE IF ~m2.matched THEN Raise("Invalid array header", start_idx + 1)
     ELSE IF Len(m2.delimiter) > 0 THEN ToonParser_parse_tabular_array(self, ls, start_idx + 1, base_indent, m2.count, m2.delimiter)
     ELSE ToonParser_parse_list_array(self, ls, start_idx + 1, base_indent, m2.count)

RECURSIVE _parse_lines(_, _, _, _, _)
\* _parse_lines from the top of its while loop, with result as built so far
_parse_lines(self, ls, idx, current_indent, res) ==
  IF idx >= Len(ls) THEN Returned(res, idx)
  ELSE LET line == ls[idx + 1]
           indent == Indent(line)
           stripped == Strip(line)
           kv == Partition(stripped, ":")
           key == Strip(kv[1])
           value_part == Strip(kv[2])
           nested == _parse_lines(self, ls, idx + 1, indent + self.indent, PyDict(<<>>))
           arr == _parse_array(self, ls, idx, indent)
       IN IF IsBlank(line) THEN _parse_lines(self, ls, idx + 1, current_indent, res)
          ELSE IF indent < current_indent THEN Returned(res, idx)
          ELSE IF self.strict /\ indent > current_indent /\ indent % self.indent # 0 THEN Raise("Invalid indentation", idx + 1)
          ELSE IF Contains(stripped, ":") /\ ~StartsWith(stripped, <<"-">>) THEN
            IF Len(value_part) = 0 THEN
              IF nested.ok THEN _parse_lines(self, ls, nested.idx, current_indent, DictSet(res, key, nested.val)) ELSE nested
            ELSE IF StartsWith(value_part, <<"[">>) THEN
              IF arr.ok THEN _parse_lines(self, ls, arr.idx, current_indent, DictSet(res, key, arr.val)) ELSE arr
            ELSE _parse_lines(self, ls, idx + 1, current_indent, DictSet(res, key, _parse_value(value_part)))
          ELSE _parse_lines(self, ls, idx + 1, current_indent, res)

\* ToonParser.decode
decode(self, toon_str) == _parse_lines(self, Split(toon_str, "\n"), 0, 0, PyDict(<<>>))

(***************************************************************************)
(* ToonParser().encode followed by ToonParser().decode                     *)
(***************************************************************************)
\* {"users": [{"id": 1, "name": "Alice", "role": "admin"}, {"id": 2, "name": "Bob", "role": "user"}]}
ScenarioA ==
  PyDict(<<Pair(<<"u", "s", "e", "r", "s">>, PyList(<<
    PyDict(<<Pair(<<"i", "d">>, PyInt(1)), Pair(<<"n", "a", "m", "e">>, PyStr(<<"A", "l", "i", "c", "e">>)), Pair(<<"r", "o", "l", "e">>, PyStr(<<"a", "d", "m", "i", "n">>))>>),
    PyDict(<<Pair(<<"i", "d">>, PyInt(2)), Pair(<<"n", "a", "m", "e">>, PyStr(<<"B", "o", "b">>)), Pair(<<"r", "o", "l", "e">>, PyStr(<<"u", "s", "e", "r">>))>>)>>))>>)

OldDocs == Docs \cup {ScenarioA}

InitOld ==
  /\ pc = "start"
  /\ data \in OldDocs
  /\ options = ToonParser(TRUE, 2, <<",">>)
  /\ toon_string = <<>>
  /\ lines = <<>>
  /\ i = 0
  /\ result = Returned(PyDict(<<>>), 0)
  /\ out = <<>>

\* toon_string = parser.encode(data)
OldEncode ==
  /\ pc = "start"
  /\ toon_string' = encode(options, data)
  /\ lines' = Split(encode(options, data), "\n")
  /\ pc' = IF Raised(encode(options, data)) THEN "raised" ELSE "encoded"
  /\ UNCHANGED <<data, options, i, result, out>>

\* result = parser.decode(toon_string)
OldDecode ==
  /\ pc = "encoded"
  /\ result' = decode(options, toon_string)
  /\ pc' = IF decode(options, toon_string).ok THEN "done" ELSE "raised"
  /\ UNCHANGED <<data, options, toon_string, lines, i, out>>

NextOld == OldEncode \/ OldDecode

SpecOld == InitOld /\ [][NextOld]_vars

\* C3: Scenario A: ToonParser().encode of the users document is exactly the four
\* lines "users [2,]", "  id, name, role", "  1, Alice, admin" and "  2, Bob, user".
C3_ScenarioA ==
  (pc = "encoded" /\ data = ScenarioA) =>
    lines = <<<<"u", "s", "e", "r", "s">> \o <<" ", "[", "2", ",", "]">>,
              Spaces(2) \o Join(<<<<"i", "d">>, <<"n", "a", "m", "e">>, <<"r", "o", "l", "e">>>>, <<",", " ">>),
              Spaces(2) \o Join(<<<<"1">>, <<"A", "l", "i", "c", "e">>, <<"a", "d", "m", "i", "n">>>>, <<",", " ">>),
              Spaces(2) \o Join(<<<<"2">>, <<"B", "o", "b">>, <<"u", "s", "e", "r">>>>, <<",", " ">>)>>

(***************************************************************************)
(* ToonParser(strict).decode of a text that is written by hand             *)
(***************************************************************************)
\* the most data rows of a text, and the largest declared length
MaxDataRows == 3

\* the first line of an array that declares n elements, in the forms "users [n,]",
\* "users: [n,]", "[n,] users: [" and "[n] users: ["
Headers(n) ==
  {<<"u", "s", "e", "r", "s">> \o <<" ", "[">> \o NatStr(n) \o <<",", "]">>,
   <<"u", "s", "e", "r", "s">> \o <<":", " ", "[">> \o NatStr(n) \o <<",", "]">>,
   <<"[">> \o NatStr(n) \o <<",", "]", " ">> \o <<"u", "s", "e", "r", "s">> \o <<":", " ", "[">>,
   <<"[">> \o NatStr(n) \o <<"]", " ">> \o <<"u", "s", "e", "r", "s">> \o <<":", " ", "[">>}

ColumnLine == Spaces(2) \o <<"i", "d", ",", "n", "a", "m", "e">>

PersonName(r) == IF r = 1 THEN <<"A", "l", "i", "c", "e">> ELSE IF r = 2 THEN <<"B", "o", "b">> ELSE <<"E", "v", "e">>

\* the data row "  r,name"
DataRow(r) == Spaces(2) \o NatStr(r) \o <<",">> \o PersonName(r)

\* the object that DataRow(r) stands for
DataRowObject(r) == PyDict(<<Pair(<<"i", "d">>, PyInt(r)), Pair(<<"n", "a", "m", "e">>, PyStr(PersonName(r)))>>)

\* the column line and k data rows; when short, the last row has one value only
TabularBody(k, short) == <<ColumnLine>> \o [r \in 1..k |-> IF short /\ r = k THEN Spaces(2) \o NatStr(r) ELSE DataRow(r)]

\* k list items "  - r"
ListBody(k) == [r \in 1..k |-> Spaces(2) \o <<"-", " ">> \o NatStr(r)]

Bodies == {TabularBody(k, short) : k \in 0..MaxDataRows, short \in BOOLEAN} \cup {ListBody(k) : k \in 0..MaxDataRows}

Trailers == {<<>>, <<<<"z", ":", " ", "1">>>>}

Texts == {Join(<<h>> \o b \o t, <<"\n">>) : h \in UNION {Headers(n) : n \in 1..MaxDataRows}, b \in Bodies, t \in Trailers}

InitDecode ==
  /\ pc = "start"
  /\ data = PyNone
  /\ options \in {ToonParser(strict, 2, <<",">>) : strict \in BOOLEAN}
  /\ toon_string \in Texts
  /\ lines = <<>>
  /\ i = 0
  /\ result = Returned(PyDict(<<>>), 0)
  /\ out = <<>>

\* result = parser.decode(toon_string)
DecodeText ==
  /\ pc = "start"
  /\ lines' = Split(toon_string, "\n")
  /\ result' = decode(options, toon_string)
  /\ pc' = IF decode(options, toon_string).ok THEN "done" ELSE "raised"
  /\ UNCHANGED <<data, options, toon_string, i, out>>

NextDecode == DecodeText

SpecDecode == InitDecode /\ [][NextDecode]_vars

\* the messages of the errors that report a wrong array length
LengthMismatchErrors == {"Array length mismatch", "Array has fewer rows than declared length", "List array length mismatch"}

\* a header that declares 3 rows, the column line and 2 data rows
DeclaresThreeHasTwo(text) == text \in {Join(<<h>> \o TabularBody(2, FALSE), <<"\n">>) : h \in Headers(3)}

\* C4: strict versus lenient decode: for a text whose tabular header declares 3 rows
\* and that holds only 2 data rows, decode of a strict parser raises a length-mismatch
\* error, and decode of a lenient parser returns an array of exactly the 2 rows.
C4_StrictVersusLenient ==
  (pc \in {"done", "raised"} /\ DeclaresThreeHasTwo(toon_string)) =>
    IF options.strict
    THEN ~result.ok /\ result.err \in LengthMismatchErrors
    ELSE /\ result.ok
         /\ \E p \in 1..Len(result.val.kids) : result.val.kids[p].val = PyList(<<DataRowObject(1), DataRowObject(2)>>)

(***************************************************************************)
(* ToonParser._detect_array_type                                           *)
(***************************************************************************)
\* the longest array that is classified
MaxArrayLen == 2

ArrayElems ==
  {PyInt(1), PyStr(<<"x">>), PyNone, PyBool(TRUE), PyFloat(15, -1),
   PyDict(<<>>), PyDict(<<Pair(<<"a">>, PyInt(1))>>),
   PyDict(<<Pair(<<"a">>, PyInt(1)), Pair(<<"b">>, PyStr(<<"x">>))>>),
   PyDict(<<Pair(<<"b">>, PyNone), Pair(<<"a">>, PyInt(2))>>),
   PyDict(<<Pair(<<"a">>, PyInt(1)), Pair(<<"b">>, PyDict(<<Pair(<<"c">>, PyInt(1))>>))>>),
   PyDict(<<Pair(<<"a">>, PyList(<<PyInt(1)>>))>>),
   PyList(<<PyInt(1)>>), PyTuple(<<PyInt(1)>>)}

Arrays == {PyList(es) : es \in SeqsUpTo(ArrayElems, MaxArrayLen)}

InitDetect ==
  /\ pc = "start"
  /\ data \in Arrays
  /\ options = ToonParser(TRUE, 2, <<",">>)
  /\ toon_string = <<>>
  /\ lines = <<>>
  /\ i = 0
  /\ result = PyNone
  /\ out = ""

\* out = parser._detect_array_type(data)
Detect ==
  /\ pc = "start"
  /\ out' = _detect_array_type(data)
  /\ pc' = "detected"
  /\ UNCHANGED <<data, options, toon_string, lines, i, result>>

NextDetect == Detect

SpecDetect == InitDetect /\ [][NextDetect]_vars

NormAtoms ==
  {PyInt(1), PyStr(<<"x">>), PyNone, PyBool(TRUE), PyFloat(15, -1), PyFloat(0, 0), NaN, Inf, NegInf, NegZero,
   DateTime(<<"2", "0", "2", "5", "-", "0", "1", "-", "0", "1", "T", "0", "0", ":", "0", "0", ":", "0", "0">>), Decimal(9999, -2), DecimalSpecial(<<"n", "a", "n">>), DecimalSpecial(<<"-", "0">>), Callable}

\* sets: of one atom, of two numbers and of two strings out of order, of a tuple
NormSets ==
  {PySet(<<a>>) : a \in NormAtoms}
  \cup {PySet(<<>>), PySet(<<PyInt(3), PyInt(1)>>), PySet(<<PyStr(<<"b">>), PyStr(<<"a">>)>>), PySet(<<PyTuple(<<PyInt(1), PyInt(2)>>)>>)}

RECURSIVE NormValues(_)
\* the atoms and sets under at most d tuples, lists and dicts
NormValues(d) ==
  IF d = 0 THEN NormAtoms \cup NormSets
  ELSE NormValues(d - 1)
       \cup {PyTuple(<<v>>) : v \in NormValues(d - 1)}
       \cup {PyList(<<v>>) : v \in NormValues(d - 1)}
       \cup {PyDict(<<Pair(<<"k">>, v)>>) : v \in NormValues(d - 1)}

InitNormalize ==
  /\ pc = "start"
  /\ data \in NormValues(MaxDepth)
  /\ options = ToonParser(TRUE, 2, <<",">>)
  /\ toon_string = <<>>
  /\ lines = <<>>
  /\ i = 0
  /\ result = PyNone
  /\ out = PyNone

\* result = parser._normalize_types(data)
Normalize ==
  /\ pc = "start"
  /\ result' = _normalize_types(data)
  /\ i' = 1
  /\ pc' = "once"
  /\ UNCHANGED <<data, options, toon_string, lines, out>>

\* out = parser._normalize_types(result)
NormalizeAgain ==
  /\ pc = "once"
  /\ out' = _normalize_types(result)
  /\ i' = 2
  /\ pc' = "twice"
  /\ UNCHANGED <<data, options, toon_string, lines, result>>

NextNormalize == Normalize \/ NormalizeAgain

SpecNormalize == InitNormalize /\ [][NextNormalize]_vars

\* C9: normalization is idempotent: _normalize_types(_normalize_types(data)) is equal
\* to _normalize_types(data).
C9_NormalizeIdempotent == pc = "twice" => PyEq(out, result)

(***************************************************************************)
(* The quoting of one string by _format_primitive and by _encode_string    *)
(***************************************************************************)
\* the longest string that is formatted
MaxStrLen == 3

QuoteChars == {"a", "1", ".", "+", " ", ",", "|", "\r"}

InitQuote ==
  /\ pc = "start"
  /\ data \in {PyStr(s) : s \in SeqsUpTo(QuoteChars, MaxStrLen)}
  /\ options \in {ToonParser(TRUE, 2, <<d>>) : d \in {",", "|"}}
  /\ toon_string = <<>>
  /\ lines = <<>>
  /\ i = 0
  /\ result = PyNone
  /\ out = <<>>

\* toon_parser.py: out = _format_primitive(data)
FormatPrimitive ==
  /\ pc = "start"
  /\ out' = _format_primitive(data)
  /\ pc' = "formatted"
  /\ UNCHANGED <<data, options, toon_string, lines, i, result>>

\* toon_parser-old.py: out = parser._encode_string(data)
EncodeString ==
  /\ pc = "start"
  /\ out' = _encode_string(options, data.s)
  /\ pc' = "encoded"
  /\ UNCHANGED <<data, options, toon_string, lines, i, result>>

NextQuote == FormatPrimitive \/ EncodeString

SpecQuote == InitQuote /\ [][NextQuote]_vars

\* text is inside double quotes
IsQuoted(text) == Len(text) >= 2 /\ text[1] = "\"" /\ text[Len(text)] = "\""

\* s parses fully as a number
ParsesAsNumber(s) == IsIntLiteral(s) \/ IsFloatLiteral(s)

\* the quoting rule for s under the active delimiter
MustQuote(s, delimiter) ==
  \/ Len(s) = 0
  \/ s \in ReservedWords
  \/ ParsesAsNumber(s)
  \/ IsSpace(s[1]) \/ IsSpace(s[Len(s)])
  \/ ContainsAny(s, {":", "[", "]", "-", "\n", "\t"})
  \/ IsSubstring(s, delimiter)

\* C10: quoting rule: the encoder emits a string in double quotes if and only if it
\* is empty, is one of true, false and null, parses fully as a number, has leading or
\* trailing whitespace, or contains one of : [ ] - the active delimiter, newline or
\* tab; every other string is emitted bare, as it is.
C10_QuotingRule ==
  pc \in {"formatted", "encoded"} =>
    /\ IsQuoted(out) <=> MustQuote(data.s, options.delimiter)
    /\ ~MustQuote(data.s, options.delimiter) => out = data.s

(***************************************************************************)
(* ToonParser._encode_string followed by ToonParser._parse_value           *)
(***************************************************************************)
\* ordinary characters, backslash, double quote, newline, tab
EscapeChars == {"a", "n", ":", "\\", "\"", "\n", "\t"}

InitEscape ==
  /\ pc = "start"
  /\ data \in {PyStr(s) : s \in SeqsUpTo(EscapeChars, MaxStrLen)}
  /\ options = ToonParser(TRUE, 2, <<",">>)
  /\ toon_string = <<>>
  /\ lines = <<>>
  /\ i = 0
  /\ result = PyNone
  /\ out = <<>>

\* out = parser._encode_string(data); a string that is not quoted is returned as
\* it is
EscapeString ==
  /\ pc = "start"
  /\ out' = _encode_string(options, data.s)
  /\ pc' = IF _encode_string(options, data.s) # data.s THEN "quoted" ELSE "bare"
  /\ UNCHANGED <<data, options, toon_string, lines, i, result>>

\* result = parser._parse_value(out), for the quoted output of the encoder
UnescapeString ==
  /\ pc = "quoted"
  /\ result' = _parse_value(out)
  /\ pc' = "unescaped"
  /\ UNCHANGED <<data, options, toon_string, lines, i, out>>

NextEscape == EscapeString \/ UnescapeString

SpecEscape == InitEscape /\ [][NextEscape]_vars

\* C11: escaping is symmetric: for every string that _encode_string quotes,
\* _parse_value of the quoted and escaped text is exactly that string.
C11_EscapeSymmetric == pc = "unescaped" => result = data

(***************************************************************************)
(* old-II/toon_parser.py: ToonParser.generate.  Each _generate_* method is *)
(* the sequence of lines it appends to lines.                              *)
(***************************************************************************)
\* EncodeOptions(delimiter=",", indent=2, length_marker="#", prefer_tabular=True)
EncodeOptions(delimiter, indent, length_marker, prefer_tabular) ==
  [delimiter |-> delimiter, indent |-> indent, length_marker |-> length_marker, prefer_tabular |-> prefer_tabular]

_quote_string(s) ==
  IF \/ Len(s) = 0
     \/ s \in ReservedWords
     \/ IsFloatLiteral(s)
     \/ s # Strip(s)
     \/ ContainsAny(s, {":", "[", "]", "-", " ", "\t", "\n"})
  THEN <<"\"">> \o s \o <<"\"">>
  ELSE s

_format_value(value) ==
  CASE value.t = "NoneType" -> <<"n", "u", "l", "l">>
    [] value.t = "bool" -> IF value.n = 1 THEN <<"t", "r", "u", "e">> ELSE <<"f", "a", "l", "s", "e">>
    [] value.t = "int" -> IntStr(value.n)
    [] value.t = "float" -> FloatStr(value)
    [] value.t = "str" -> _quote_string(value.s)
    [] OTHER -> PyRepr(value)

_is_uniform_objects(arr) ==
  /\ Len(arr.kids) > 0
  /\ \A j \in 1..Len(arr.kids) : IsDict(arr.kids[j].val)
  /\ \A j \in 1..Len(arr.kids) :
       /\ KeySet(arr.kids[j].val) = KeySet(arr.kids[1].val)
       /\ \A c \in 1..Len(arr.kids[j].val.kids) : arr.kids[j].val.kids[c].val.t \notin {"dict", "list"}

\* the array length indicator
_generate_array(arr, opts) ==
  IF _is_uniform_objects(arr)
  THEN <<"[">> \o opts.length_marker \o IntStr(Len(arr.kids)) \o opts.delimiter \o <<"]">>
  ELSE <<"[">> \o opts.length_marker \o IntStr(Len(arr.kids)) \o <<"]">>

_generate_tabular_array(arr, indent_level, opts) ==
  IF Len(arr.kids) = 0 THEN <<>>
  ELSE LET indent == Spaces(indent_level * opts.indent)
           keys == Keys(arr.kids[1].val)
       IN <<indent \o Join(keys, opts.delimiter)>>
          \o [j \in 1..Len(arr.kids) |-> indent \o Join([c \in 1..Len(keys) |-> _format_value(Get(arr.kids[j].val, keys[c]))], opts.delimiter)]

RECURSIVE _generate_object(_, _, _)
RECURSIVE _generate_list_array(_, _, _)
RECURSIVE GenerateEntries(_, _, _)
RECURSIVE GenerateItems(_, _, _)
\* the lines for the items kids of an object, in order
GenerateEntries(kids, indent_level, opts) ==
  IF Len(kids) = 0 THEN <<>>
  ELSE LET indent == Spaces(indent_level * opts.indent)
           key == kids[1].k
           value == kids[1].val
           own == IF IsDict(value) THEN <<indent \o key \o <<":">>>> \o _generate_object(value, indent_level + 1, opts)
                  ELSE IF IsList(value) THEN
                    <<indent \o key \o <<" ">> \o _generate_array(value, opts) \o <<":">>>>
                    \o (IF opts.prefer_tabular /\ _is_uniform_objects(value)
                        THEN _generate_tabular_array(value, indent_level + 1, opts)
                        ELSE _generate_list_array(value, indent_level + 1, opts))
                  ELSE <<indent \o key \o <<":", " ">> \o _format_value(value)>>
       IN own \o GenerateEntries(Tail(kids), indent_level, opts)

_generate_object(obj, indent_level, opts) == GenerateEntries(obj.kids, indent_level, opts)

\* the lines for the elements kids of a list array, in order
GenerateItems(kids, indent_level, opts) ==
  IF Len(kids) = 0 THEN <<>>
  ELSE LET indent == Spaces(indent_level * opts.indent)
           item == kids[1].val
           own == IF IsDict(item) THEN <<indent \o <<"-">>>> \o _generate_object(item, indent_level + 1, opts)
                  ELSE <<indent \o <<"-", " ">> \o _format_value(item)>>
       IN own \o GenerateItems(Tail(kids), indent_level, opts)

_generate_list_array(arr, indent_level, opts) == GenerateItems(arr.kids, indent_level, opts)

\* ToonParser.generate
generate(d, opts) == Join(_generate_object(d, 0, opts), <<"\n">>)

InitGenerate ==
  /\ pc = "start"
  /\ data \in ObjectArrayDocs
  /\ options \in {EncodeOptions(<<",">>, 2, m, t) : m \in {<<"#">>, <<>>}, t \in BOOLEAN}
  /\ toon_string = <<>>
  /\ lines = <<>>
  /\ i = 0
  /\ result = PyNone
  /\ out = <<>>

\* toon_string = parser.generate(data, options)
Generate ==
  /\ pc = "start"
  /\ lines' = _generate_object(data, 0, options)
  /\ toon_string' = generate(data, options)
  /\ pc' = "generated"
  /\ UNCHANGED <<data, options, i, result, out>>

NextGenerate == Generate

SpecGenerate == InitGenerate /\ [][NextGenerate]_vars

\* C14: prefer_tabular=False: an array of uniform scalar-valued objects is generated
\* in list form: its header is "key [N]" (after the length marker, and before the
\* colon that ends the line) with no delimiter in the brackets, and N elements
\* marked "-" follow it.
C14_PreferTabularFalse ==
  LET v == data.kids[1].val
  IN (pc = "generated" /\ ~options.prefer_tabular /\ IsTabularShape(v)) =>
       /\ StartsWith(lines[1], data.kids[1].k \o <<" ", "[">> \o options.length_marker \o IntStr(Len(v.kids)) \o <<"]">>)
       /\ Cardinality({l \in 2..Len(lines) : StartsWith(lines[l], Spaces(options.indent) \o <<"-">>)}) = Len(v.kids)

(***************************************************************************)
(* ToonParser(strict).decode of texts whose lines are indented by spaces   *)
(* and tabs                                                                *)
(***************************************************************************)
\* the most lines of such a text
MaxLines == 3

\* the indentations of a line: 0..3 spaces, one tab, two tabs
Indentations == {Spaces(n) : n \in 0..3} \cup {<<"\t">>, <<"\t", "\t">>}

\* an object property with a value, and one that opens a nested object
PropertyLines == {<<"a", ":", " ", "1">>, <<"b", ":">>}

IndentedTexts == {Join(ls, <<"\n">>) : ls \in UNION {[1..n -> {ind \o p : ind \in Indentations, p \in PropertyLines}] : n \in 1..MaxLines}}

InitIndent ==
  /\ pc = "start"
  /\ data = PyNone
  /\ options \in {ToonParser(strict, 2, <<",">>) : strict \in BOOLEAN}
  /\ toon_string \in IndentedTexts
  /\ lines = <<>>
  /\ i = 0
  /\ result = Returned(PyDict(<<>>), 0)
  /\ out = <<>>

SpecIndent == InitIndent /\ [][NextDecode]_vars

\* the indentation of the line holds a tab, or its length is no multiple of width
IsBadIndentation(line, width) ==
  LET ind == Slice(line, 1, Indent(line))
  IN ~IsBlank(line) /\ (Contains(ind, "\t") \/ Len(ind) % width # 0)

\* C15: indentation errors in decode: when a non-blank line of the text has an
\* indentation that is no multiple of the indent width or that holds a tab, decode
\* of a strict parser raises the indentation error, and decode of a lenient parser
\* raises no indentation error and returns a value.
C15_IndentationErrors ==
  (pc \in {"done", "raised"} /\ \E l \in 1..Len(lines) : IsBadIndentation(lines[l], options.indent)) =>
    IF options.strict
    THEN ~result.ok /\ result.err = "Invalid indentation"
    ELSE result.ok

(***************************************************************************)
(* ToonParser.decode: the shape of tabular rows, and the line of an error  *)
(***************************************************************************)
\* the texts of a tabular array whose last data row holds one value for the two
\* columns "id,name"
ShortRowTexts ==
  {Join(<<h>> \o TabularBody(k, TRUE) \o t, <<"\n">>) :
     h \in {hd \in UNION {Headers(n) : n \in 1..MaxDataRows} : Contains(hd, ",")},
     k \in 1..MaxDataRows, t \in Trailers}

\* C16: row shape: under strict decode, a text whose tabular array has a data row
\* with a number of fields other than the number of columns makes decode raise the
\* row-shape error; the row is neither dropped nor accepted.
C16_RowShape ==
  (pc \in {"done", "raised"} /\ options.strict /\ toon_string \in ShortRowTexts) =>
    ~result.ok /\ result.err = "Row has wrong number of values"

\* the line that an error names is the line of the fault: the array header for a
\* wrong header or a wrong length, the row for a row of the wrong width
IsFaultLine(err, line) ==
  CASE err \in {"Invalid array header", "Array length mismatch", "List array length mismatch"} ->
         line \in UNION {Headers(n) : n \in 1..MaxDataRows}
    [] err = "Row has wrong number of values" -> Len(Split(Strip(line), ",")) # 2
    [] OTHER -> TRUE

\* C17: every error that decode raises carries a line number, which is the 1-based
\* number of a line of the text, and that line is the one where the fault is.
C17_ErrorLineNumber ==
  pc = "raised" =>
    /\ result.line \in 1..Len(lines)
    /\ IsFaultLine(result.err, lines[result.line])

(***************************************************************************)
(* toon_validator.py: ToonValidator                                        *)
(***************************************************************************)
\* ValidationLevel
STRICT == "strict"

LENIENT == "lenient"

ToonValidator(level, indent) == [level |-> level, indent |-> indent]

\* a message stands for its text up to the values that are formatted into it
ValidationError(line_num, severity, message) == [line_num |-> line_num, severity |-> severity, message |-> message]

ValidationResult == [errors |-> <<>>, warnings |-> <<>>, info |-> <<>>, is_valid |-> TRUE]

add_error(res, line_num, message) == [res EXCEPT !.errors = Append(@, ValidationError(line_num, "ERROR", message)), !.is_valid = FALSE]

add_warning(res, line_num, message) == [res EXCEPT !.warnings = Append(@, ValidationError(line_num, "WARNING", message))]

RECURSIVE AddErrors(_, _, _)
\* for error in messages: result.add_error(i, error, line)
AddErrors(res, line_num, messages) == IF Len(messages) = 0 THEN res ELSE AddErrors(add_error(res, line_num, Head(messages)), line_num, Tail(messages))

RECURSIVE AddWarnings(_, _, _)
\* for warning in messages: result.add_warning(i, warning, line)
AddWarnings(res, line_num, messages) == IF Len(messages) = 0 THEN res ELSE AddWarnings(add_warning(res, line_num, Head(messages)), line_num, Tail(messages))

_validate_indentation(self, line, line_num, expected) ==
  LET indent == Len(line) - Len(LStrip(line))
  IN (IF Contains(Slice(line, 1, indent), "\t") THEN <<"Tabs found in indentation (use spaces)">> ELSE <<>>)
     \o (IF self.level = STRICT /\ indent % self.indent # 0 THEN <<"Indentation not a multiple">> ELSE <<>>)

\* re.match(r'.*\[(\d+)' + delimiter + r'\]' + colon, line), the delimiter none or
\* one of , TAB |, the colon none or \s*: ; the greedy .* takes the last such bracket
HeaderAt(line, a, withDelimiter, withColon) ==
  LET h == MatchHeader(Slice(line, a, Len(line)))
      r == LStrip(h.rest)
  IN /\ h.matched
     /\ (Len(h.delimiter) > 0) = withDelimiter
     /\ withColon => (Len(r) > 0 /\ r[1] = ":")

\* the last position where the bracket matches, 0 when it matches nowhere
LastHeaderAt(line, withDelimiter, withColon) ==
  CHOOSE a \in 0..Len(line) :
    /\ a = 0 \/ HeaderAt(line, a, withDelimiter, withColon)
    /\ \A b \in (a + 1)..Len(line) : ~HeaderAt(line, b, withDelimiter, withColon)

MatchAnywhere(line, withDelimiter, withColon) ==
  CHOOSE m \in {IF a = 0 THEN [matched |-> FALSE, count |-> 0, delimiter |-> <<>>]
                ELSE [matched |-> TRUE, count |-> MatchHeader(Slice(line, a, Len(line))).count, delimiter |-> MatchHeader(Slice(line, a, Len(line))).delimiter] :
                a \in {LastHeaderAt(line, withDelimiter, withColon)}} : TRUE

NoInfo == [type |-> "", count |-> 0, delimiter |-> <<>>, line |-> 0]

\* the result of the three matches m = <<primitive, tabular, list>>
HeaderInfo(line, line_num, m) ==
  IF m[1].matched THEN <<<<>>, [type |-> "primitive", count |-> m[1].count, delimiter |-> <<>>, line |-> line_num]>>
  ELSE IF m[2].matched THEN <<<<>>, [type |-> "tabular", count |-> m[2].count, delimiter |-> m[2].delimiter, line |-> line_num]>>
  ELSE IF m[3].matched THEN <<<<>>, [type |-> "list", count |-> m[3].count, delimiter |-> <<>>, line |-> line_num]>>
  ELSE IF Contains(line, "[") /\ Contains(line, "]") THEN <<<<"Invalid array header format">>, NoInfo>>
  ELSE <<<<>>, NoInfo>>

\* <<errors, info>>; info is NoInfo for None
_validate_array_header(line, line_num) ==
  CHOOSE r \in {HeaderInfo(line, line_num, m) : m \in {<<MatchAnywhere(line, FALSE, TRUE), MatchAnywhere(line, TRUE, FALSE), MatchAnywhere(line, FALSE, FALSE)>>}} : TRUE

IsLetter(c) == \E k \in 1..26 : UpperCase[k] = c \/ LowerCase[k] = c

_is_valid_key(key) ==
  IF Len(key) = 0 THEN FALSE
  ELSE IF StartsWith(key, <<"\"">>) /\ EndsWith(key, <<"\"">>) THEN TRUE
  ELSE (IsLetter(key[1]) \/ key[1] = "_") /\ \A k \in 2..Len(key) : IsLetter(key[k]) \/ IsDigit(key[k]) \/ key[k] = "_"

_is_valid_value(value) ==
  IF Len(value) = 0 THEN TRUE
  ELSE IF StartsWith(value, <<"[">>) /\ ~EndsWith(value, <<"]">>) THEN FALSE
  ELSE IF Cardinality({k \in 1..Len(value) : value[k] = "\""}) % 2 # 0 THEN FALSE
  ELSE TRUE

_validate_key_value(self, line, line_num) ==
  LET parts == Partition(line, ":")
      key == Strip(parts[1])
      value == Strip(parts[2])
  IN IF ~Contains(line, ":") THEN <<>>
     ELSE (IF Len(key) = 0 THEN <<"Empty key">> ELSE IF ~_is_valid_key(key) THEN <<"Invalid key format">> ELSE <<>>)
          \o (IF Len(value) > 0 /\ ~_is_valid_value(value) /\ self.level = STRICT THEN <<"Potentially invalid value">> ELSE <<>>)

ToonValidator_needs_quotes(s) ==
  IF Len(s) = 0 THEN TRUE
  ELSE IF LowerStr(s) \in {<<"t", "r", "u", "e">>, <<"f", "a", "l", "s", "e">>, <<"n", "u", "l", "l">>} THEN TRUE
  ELSE IF AllDigits(Replace(Replace(s, <<".">>, <<>>), <<"-">>, <<>>)) THEN FALSE
  ELSE IF s # Strip(s) THEN TRUE
  ELSE IF ContainsAny(s, {":", "[", "]", "-", "\n", "\t"}) THEN TRUE
  ELSE FALSE

_check_quoting(line, line_num) ==
  LET value == Strip(Partition(line, ":")[2])
  IN IF ~Contains(line, ":") \/ StartsWith(line, <<"-">>) THEN <<>>
     ELSE IF StartsWith(value, <<"\"">>) /\ EndsWith(value, <<"\"">>)
          THEN IF ~ToonValidator_needs_quotes(Slice(value, 2, Len(value) - 1)) THEN <<"Unnecessary quotes on value">> ELSE <<>>
     ELSE IF ToonValidator_needs_quotes(value) /\ ContainsAny(value, {",", ":", "["}) THEN <<"Value may need quotes">>
     ELSE <<>>

_check_types(line, line_num) ==
  LET value == Strip(Partition(line, ":")[2])
  IN IF ~Contains(line, ":") \/ StartsWith(line, <<"-">>) THEN <<>>
     ELSE (IF value \in {<<"T", "r", "u", "e">>, <<"F", "a", "l", "s", "e">>} THEN <<"Boolean should be lowercase">> ELSE <<>>)
          \o (IF value \in {<<"N", "o", "n", "e">>, <<"N", "U", "L", "L">>, <<"N", "u", "l", "l">>} THEN <<"Null should be lowercase">> ELSE <<>>)

\* the body of the for loop of validate for the non-blank line of number k:
\* st = [result, current_indent, in_array, array_info]
ValidateStripped(self, line, stripped, k, st) ==
  LET indent_errors == _validate_indentation(self, line, k, st.current_indent)
      r1 == IF self.level = STRICT THEN AddErrors(st.result, k, indent_errors) ELSE AddWarnings(st.result, k, indent_errors)
      checked == Contains(stripped, "[") /\ Contains(stripped, "]") /\ ~st.in_array
      kv_errors == IF Contains(stripped, ":") /\ ~StartsWith(stripped, <<"-">>) THEN _validate_key_value(self, stripped, k) ELSE <<>>
  IN CHOOSE next \in
       {[result |-> AddWarnings(AddWarnings(IF self.level = STRICT THEN AddErrors(AddErrors(r1, k, header[1]), k, kv_errors)
                                            ELSE AddWarnings(AddErrors(r1, k, header[1]), k, kv_errors),
                                            k, _check_quoting(stripped, k)),
                                k, _check_types(stripped, k)),
         current_indent |-> st.current_indent,
         in_array |-> IF header[2] # NoInfo THEN TRUE ELSE st.in_array,
         array_info |-> IF header[2] # NoInfo THEN header[2] ELSE st.array_info] :
        header \in {IF checked THEN _validate_array_header(stripped, k) ELSE <<<<>>, NoInfo>>}} : TRUE

\* one pass of the for loop: a blank line is skipped; line and line.strip() are
\* computed once
ValidateLine(self, ls, k, st) ==
  IF IsBlank(ls[k]) THEN st
  ELSE CHOOSE next \in {ValidateStripped(self, ln[1], ln[2], k, st) : ln \in {<<ls[k], Strip(ls[k])>>}} : TRUE

RECURSIVE ValidateLoop(_, _, _, _)
\* for i, line in enumerate(lines, start=1), from line k on
ValidateLoop(self, ls, k, st) ==
  IF k > Len(ls) THEN st
  ELSE CHOOSE end \in {ValidateLoop(self, ls, k + 1, next) : next \in {ValidateLine(self, ls, k, st)}} : TRUE

\* lines = toon_str.split('\n') is computed once
validate(self, toon_str) ==
  (CHOOSE end \in {ValidateLoop(self, ls, 1, [result |-> ValidationResult, current_indent |-> 0, in_array |-> FALSE, array_info |-> NoInfo]) : ls \in {Split(toon_str, "\n")}} : TRUE).result

(***************************************************************************)
(* ToonValidator(level).validate of a text that is written by hand         *)
(***************************************************************************)
\* the largest declared length and the most elements of an array of a text
MaxDeclared == 2

\* an array that declares n elements and holds k, in the tabular form, the list
\* form and the inline form
ArrayText(form, n, k) ==
  CASE form = "tabular" -> <<<<"u", "s", "e", "r", "s", " ", "[">> \o NatStr(n) \o <<",", "]">>>> \o TabularBody(k, FALSE)
    [] form = "list" -> <<<<"i", "t", "e", "m", "s", " ", "[">> \o NatStr(n) \o <<"]">>>> \o ListBody(k)
    [] form = "primitive" -> <<<<"t", " ", "[">> \o NatStr(n) \o <<"]", ":", " ">> \o Join([r \in 1..k |-> NatStr(r)], <<",", " ">>)>>

ArrayTexts == {ArrayText(form, n, k) : form \in {"tabular", "list", "primitive"}, n \in 1..MaxDeclared, k \in 0..MaxDeclared}

\* lines that hold brackets and match none of the three header forms
MalformedHeaders == {<<"u", " ", "[", "a", "]">>, <<"u", " ", "[", "]">>}

\* a property "a: 1" that is indented by nothing, by 3 spaces, by a tab, by 2 spaces and a tab
IndentedProperties == {ind \o <<"a", ":", " ", "1">> : ind \in {<<>>, Spaces(3), <<"\t">>, <<" ", " ", "\t">>}}

Prefixes == {<<>>} \cup {<<l>> : l \in IndentedProperties}

Suffixes == {<<>>} \cup {<<l>> : l \in IndentedProperties \cup MalformedHeaders}

ValidatorText(prefix, array, suffix) == Join(prefix \o array \o suffix, <<"\n">>)

ValidatorTexts == {ValidatorText(p, a, x) : p \in Prefixes, a \in ArrayTexts \cup {<<>>}, x \in Suffixes}

InitValidate ==
  /\ pc = "start"
  /\ data = PyNone
  /\ options \in {ToonValidator(level, 2) : level \in {STRICT, LENIENT}}
  /\ toon_string \in ValidatorTexts
  /\ lines = <<>>
  /\ i = 0
  /\ result = ValidationResult
  /\ out = <<>>

\* result = validator.validate(toon_string)
Validate ==
  /\ pc = "start"
  /\ lines' = Split(toon_string, "\n")
  /\ result' = validate(options, toon_string)
  /\ pc' = "validated"
  /\ UNCHANGED <<data, options, toon_string, i, out>>

NextValidate == Validate

SpecValidate == InitValidate /\ [][NextValidate]_vars

IndentationMessages == {"Tabs found in indentation (use spaces)", "Indentation not a multiple"}

\* some entry of the list es is about the indentation of line l
ReportsIndentation(es, l) == \E e \in 1..Len(es) : es[e].line_num = l /\ es[e].message \in IndentationMessages

\* C18: validator indentation severity: a line whose indentation holds a tab or is no
\* multiple of the indent width is reported as an ERROR at STRICT (is_valid false),
\* and as a WARNING and not as an error at LENIENT.
C18_IndentationSeverity ==
  pc = "validated" =>
    \A l \in 1..Len(lines) : IsBadIndentation(lines[l], options.indent) =>
      IF options.level = STRICT
      THEN ReportsIndentation(result.errors, l) /\ ~result.is_valid
      ELSE ReportsIndentation(result.warnings, l) /\ ~ReportsIndentation(result.errors, l)

\* the texts whose array declares a length other than the number of its elements
LengthMismatchTexts ==
  {ValidatorText(p, ArrayText(form, nk[1], nk[2]), x) :
     p \in Prefixes, x \in Suffixes, form \in {"tabular", "list", "primitive"},
     nk \in {c \in (1..MaxDeclared) \X (0..MaxDeclared) : c[1] # c[2]}}

\* the messages of the checks of indentation, header syntax and key-value syntax
OtherMessages == IndentationMessages \cup {"Invalid array header format", "Empty key", "Invalid key format", "Potentially invalid value"}

\* C19: validator length check: a text whose array declares N and holds another number
\* of rows, elements or inline values is reported with an ERROR about the length, at
\* STRICT and at LENIENT.
C19_LengthCheck ==
  (pc = "validated" /\ toon_string \in LengthMismatchTexts) =>
    /\ ~result.is_valid
    /\ \E e \in 1..Len(result.errors) : result.errors[e].message \notin OtherMessages

\* C20: validator header check: every line with a malformed array header is reported
\* with an ERROR on that line, at STRICT and at LENIENT, whatever lines come before it.
C20_HeaderCheck ==
  pc = "validated" =>
    \A l \in 1..Len(lines) : lines[l] \in MalformedHeaders =>
      /\ ~result.is_valid
      /\ \E e \in 1..Len(result.errors) : result.errors[e].line_num = l /\ result.errors[e].message = "Invalid array header format"

(***************************************************************************)
(* ToonValidator(level).validate of a line key: "s"                        *)
(***************************************************************************)
\* the line k: "s"
QuotedLine(s) == <<"k", ":", " ", "\"">> \o s \o <<"\"">>

InitQuoteCheck ==
  /\ pc = "start"
  /\ data \in {PyStr(s) : s \in SeqsUpTo(QuoteChars, MaxStrLen)}
  /\ options \in {ToonValidator(level, 2) : level \in {STRICT, LENIENT}}
  /\ toon_string = QuotedLine(data.s)
  /\ lines = <<>>
  /\ i = 0
  /\ result = ValidationResult
  /\ out = <<>>

SpecQuoteCheck == InitQuoteCheck /\ [][NextValidate]_vars

\* some warning of the result has the message
Warns(res, message) == \E w \in 1..Len(res.warnings) : res.warnings[w].message = message

\* C21: the validator's quoting check agrees with the encoder: for the line k: "s",
\* validate warns of unnecessary quotes exactly when the encoder writes s without
\* quotes; for a string that the encoder quotes there is no such warning.
C21_QuotingAgreesWithEncoder ==
  pc = "validated" =>
    (Warns(result, "Unnecessary quotes on value") <=> _format_primitive(data) = data.s)

(***************************************************************************)
(* ToonValidator(level).validate of a line key: v with v left unquoted     *)
(***************************************************************************)
StructuralChars == {":", ",", "[", "]"}

\* the values without quotes that hold a structural character
UnquotedValues == {v \in SeqsUpTo(StructuralChars \cup {"a", "1"}, MaxStrLen) : ContainsAny(v, StructuralChars)}

InitUnquoted ==
  /\ pc = "start"
  /\ data \in {PyStr(v) : v \in UnquotedValues}
  /\ options \in {ToonValidator(level, 2) : level \in {STRICT, LENIENT}}
  /\ toon_string = <<"k", ":", " ">> \o data.s
  /\ lines = <<>>
  /\ i = 0
  /\ result = ValidationResult
  /\ out = <<>>

SpecUnquoted == InitUnquoted /\ [][NextValidate]_vars

\* C22: missing-quotes severity: for a line key: v whose value holds a structural
\* character and is not quoted, validate records a WARNING at LENIENT, and an ERROR
\* at STRICT, where is_valid is false.
C22_MissingQuotesSeverity ==
  pc = "validated" =>
    IF options.level = STRICT
    THEN ~result.is_valid /\ Len(result.errors) > 0
    ELSE Len(result.warnings) > 0

(***************************************************************************)
(* validate and decode_from_toon of lines key: V, V a literal that is not  *)
(* in lower case                                                           *)
(***************************************************************************)
\* the most lines of such a text
MaxLiteralLines == 2

RECURSIVE DecodeLoop(_, _, _, _)
\* the main loop of decode_from_toon from line k on (for texts on which every
\* iteration advances)
DecodeLoop(ls, k, res, opts) ==
  IF k >= Len(ls) THEN res
  ELSE CHOOSE end \in {DecodeLoop(ls, it[2], it[1], opts) : it \in {DecodeIteration(ls, k, res, opts)}} : TRUE

decode_from_toon(text, opts) == DecodeLoop(DecodeLines(text), 0, PyDict(<<>>), opts)

NonLowercaseLiterals == {<<"T", "r", "u", "e">>, <<"F", "a", "l", "s", "e">>, <<"N", "o", "n", "e">>, <<"N", "U", "L", "L">>}

\* the key of line j
LiteralKey(j) == <<"k">> \o NatStr(j)

\* the lines "kj: V" and "kj:V"
LiteralLines(j) == {LiteralKey(j) \o sep \o v : sep \in {<<":", " ">>, <<":">>}, v \in NonLowercaseLiterals}

LiteralTexts == {Join(ls, <<"\n">>) : ls \in UNION {{f \in [1..n -> UNION {LiteralLines(j) : j \in 1..n}] : \A j \in 1..n : f[j] \in LiteralLines(j)} : n \in 1..MaxLiteralLines}}

InitLiterals ==
  /\ pc = "start"
  /\ data = PyNone
  /\ options \in {ToonValidator(level, 2) : level \in {STRICT, LENIENT}}
  /\ toon_string \in LiteralTexts
  /\ lines = <<>>
  /\ i = 0
  /\ result = ValidationResult
  /\ out = <<>>

\* data = decode_from_toon(toon_string), of the text that was validated
DecodeValidated ==
  /\ pc = "validated"
  /\ data' = decode_from_toon(toon_string, DefaultOptions)
  /\ pc' = "decoded"
  /\ UNCHANGED <<options, toon_string, lines, i, result, out>>

NextLiterals == Validate \/ DecodeValidated

SpecLiterals == InitLiterals /\ [][NextLiterals]_vars

\* the literal of line l
LiteralOf(line) == Strip(Partition(line, ":")[2])

\* C23: non-lowercase literals: for every line key: V with V one of True, False,
\* None, NULL, decode_from_toon returns the string V under key, and validate records
\* a WARNING for that line, at STRICT and at LENIENT.
C23_NonLowercaseLiterals ==
  pc = "decoded" =>
    \A l \in 1..Len(lines) :
      /\ Get(data, LiteralKey(l)) = PyStr(LiteralOf(lines[l]))
      /\ \E w \in 1..Len(result.warnings) : result.warnings[w].line_num = l /\ result.warnings[w].severity = "WARNING"

\* the text "k1: True", validated at LENIENT and decoded to the string "True"
C23_Witness ==
  /\ pc = "decoded"
  /\ options.level = LENIENT
  /\ toon_string = <<"k", "1", ":", " ", "T", "r", "u", "e">>
  /\ Get(data, <<"k", "1">>) = PyStr(<<"T", "r", "u", "e">>)
  /\ Len(result.warnings) = 1

(***************************************************************************)
(* validate_toon(ToonParser().encode(data), strict=True)                   *)
(***************************************************************************)
validate_toon(toon_str, strict) == validate(ToonValidator(IF strict THEN STRICT ELSE LENIENT, 2), toon_str)

\* result = validate_toon(toon_string, strict=True), of the text that was encoded
ValidateEncoded ==
  /\ pc = "encoded"
  /\ result' = validate_toon(toon_string, TRUE)
  /\ pc' = "validated"
  /\ UNCHANGED <<data, options, toon_string, lines, i, out>>

NextEncodeValidate == OldEncode \/ ValidateEncoded

SpecEncodeValidate == InitOld /\ [][NextEncodeValidate]_vars

\* C24: encoder output is valid TOON: the text that encode produces for a document is
\* accepted by validate_toon at strict level: is_valid is true and there is no error.
C24_EncoderOutputIsValid ==
  pc = "validated" => result.is_valid /\ result.errors = <<>>

(***************************************************************************)
(* decode_from_toon of a text that is written by hand: array headers       *)
(***************************************************************************)
ArrayKeys == {<<"t">>, <<"u", "s", "e", "r", "s">>}

\* the lines of an array of n elements under key, in the inline form "key [n]: 1, 2",
\* the tabular form "key [n,]" and the list form "key [n]"
HeaderLines(form, key, n) ==
  CASE form = "primitive" -> <<key \o <<" ", "[">> \o NatStr(n) \o <<"]", ":", " ">> \o Join([r \in 1..n |-> NatStr(r)], <<",", " ">>)>>
    [] form = "tabular" -> <<key \o <<" ", "[">> \o NatStr(n) \o <<",", "]">>>> \o TabularBody(n, FALSE)
    [] form = "list" -> <<key \o <<" ", "[">> \o NatStr(n) \o <<"]">>>> \o ListBody(n)

\* the array that these lines stand for
HeaderValue(form, n) ==
  IF form = "tabular" THEN PyList([r \in 1..n |-> DataRowObject(r)]) ELSE PyList([r \in 1..n |-> PyInt(r)])

\* the property lines before and after the array
Before == {<<>>, <<<<"a", ":", " ", "1">>>>}

HeaderCases ==
  {[text |-> Join(b \o HeaderLines(form, key, n) \o t, <<"\n">>), expected |-> PyDict(<<Pair(key, HeaderValue(form, n))>>)] :
     b \in Before, t \in Trailers, form \in {"primitive", "tabular", "list"}, key \in ArrayKeys, n \in 1..MaxDeclared}

InitDispatch ==
  /\ pc = "encoded"
  /\ \E c \in HeaderCases : data = c.expected /\ toon_string = c.text
  /\ options = DefaultOptions
  /\ lines = <<>>
  /\ i = 0
  /\ result = PyDict(<<>>)
  /\ out = <<>>

NextDecodeSteps == DecodeStart \/ DecodeStep \/ DecodeReturn

SpecDispatch == InitDispatch /\ [][NextDecodeSteps]_vars

\* C25: array header dispatch: when decode_from_toon returns, the array of the text is
\* stored under its key, without the bracket part, and it is the array of the inline
\* values, of the objects of the rows, or of the elements marked "-".
C25_HeaderDispatch ==
  pc = "done" =>
    /\ HasKey(result, data.kids[1].k)
    /\ PyEq(Get(result, data.kids[1].k), data.kids[1].val)

(***************************************************************************)
(* _parse_primitive of a token                                             *)
(***************************************************************************)
TokenChars == {"1", "e", ".", "-", "a", "\""}

\* null, true, false, "a\"b" and "\\" in quotes, and the short tokens over TokenChars
Tokens ==
  {<<"n", "u", "l", "l">>, <<"t", "r", "u", "e">>, <<"f", "a", "l", "s", "e">>,
   <<"\"", "a", "\\", "\"", "b", "\"">>, <<"\"", "\\", "\\", "\"">>}
  \cup (SeqsUpTo(TokenChars, MaxStrLen) \ {<<>>})

InitParse ==
  /\ pc = "start"
  /\ data \in {PyStr(t) : t \in Tokens}
  /\ options = DefaultOptions
  /\ toon_string = data.s
  /\ lines = <<>>
  /\ i = 0
  /\ result = PyNone
  /\ out = <<>>

\* result = _parse_primitive(toon_string)
ParsePrimitive ==
  /\ pc = "start"
  /\ result' = _parse_primitive(toon_string)
  /\ pc' = "parsed"
  /\ UNCHANGED <<data, options, toon_string, lines, i, out>>

NextParse == ParsePrimitive

SpecParse == InitParse /\ [][NextParse]_vars

\* the scalar that a token stands for: null, a boolean, the unescaped content of a
\* token in double quotes, an integer, a float, or the token itself
ScalarOf(token) ==
  IF token = <<"n", "u", "l", "l">> THEN PyNone
  ELSE IF token = <<"t", "r", "u", "e">> THEN PyBool(TRUE)
  ELSE IF token = <<"f", "a", "l", "s", "e">> THEN PyBool(FALSE)
  ELSE IF IsQuoted(token) THEN PyStr(Unescape(Slice(token, 2, Len(token) - 1)))
  ELSE IF IsIntLiteral(token) THEN PyInt(IntVal(token))
  ELSE IF IsFloatLiteral(token) THEN FloatVal(token)
  ELSE PyStr(token)

\* C26: scalar literal parsing: _parse_primitive returns null for null, a boolean for
\* true and false, the unescaped content for a token in double quotes, the integer for
\* a token that parses as an integer, the float for a token that parses as a float
\* (with or without a decimal point), and the token itself otherwise.
C26_ScalarLiterals == pc = "parsed" => result = ScalarOf(toon_string)

(***************************************************************************)
(* decode_from_toon of a text whose lines are indented by 0 to 3 spaces    *)
(***************************************************************************)
\* property lines "a: 1" and "b:", each after 0, 1, 2 or 3 spaces
SpaceIndentedTexts == {Join(ls, <<"\n">>) : ls \in UNION {[1..n -> {Spaces(ind) \o p : ind \in 0..3, p \in PropertyLines}] : n \in 1..MaxLines}}

InitPass ==
  /\ pc = "encoded"
  /\ toon_string \in SpaceIndentedTexts
  /\ data = PyStr(toon_string)
  /\ options = DefaultOptions
  /\ lines = <<>>
  /\ i = 0
  /\ result = PyDict(<<>>)
  /\ out = <<>>

SpecPass == InitPass /\ [][NextDecodeSteps]_vars

\* C27: decoding is a single left-to-right pass: every iteration of the main loop of
\* decode_from_toon leaves the line index strictly greater than it found it, also on a
\* text whose nested lines are indented by less than one indent unit.
C27_SinglePass == [][pc = "decoding" /\ pc' = "decoding" => i' > i]_vars

(***************************************************************************)
(* decode_from_toon of a text with nested objects                          *)
(***************************************************************************)
RECURSIVE ObjectLines(_, _)
\* the lines that stand for the object d at indentation ind: "k: 1" for a number and
\* "k:" followed by the deeper lines of a nested object
ObjectLines(d, ind) ==
  IF Len(d.kids) = 0 THEN <<>>
  ELSE (IF d.kids[1].val.t = "dict"
          THEN <<Spaces(ind) \o d.kids[1].k \o <<":">>>> \o ObjectLines(d.kids[1].val, ind + 2)
          ELSE <<Spaces(ind) \o d.kids[1].k \o <<":", " ">> \o NatStr(d.kids[1].val.n)>>)
       \o ObjectLines(PyDict(Tail(d.kids)), ind)

\* {"o": {"a": 1}} and {"o": {"o": {"a": 1}}}, alone, after "h: 0" and before "j: 3"
ScopeDocs ==
  {PyDict(h \o <<Pair(<<"o">>, Nest(PyDict(<<Pair(ka, PyInt(n))>>), d - 1))>> \o j) :
     h \in {<<>>, <<Pair(<<"h">>, PyInt(0))>>}, j \in {<<>>, <<Pair(<<"j">>, PyInt(3))>>},
     ka \in {<<"a">>, <<"b">>}, n \in 1..2, d \in 1..MaxDepth}

InitScope ==
  /\ pc = "encoded"
  /\ data \in ScopeDocs
  /\ toon_string = Join(ObjectLines(data, 0), <<"\n">>)
  /\ options = DefaultOptions
  /\ lines = <<>>
  /\ i = 0
  /\ result = PyDict(<<>>)
  /\ out = <<>>

SpecScope == InitScope /\ [][NextDecodeSteps]_vars

\* C28: nested object scoping: when decode_from_toon returns, the keys of the result
\* are the keys of the lines at indentation 0 and no key of a deeper line, the line back
\* at indentation 0 is among them, and the value under "o" is the nested object of the
\* deeper lines, with an object nested in it kept as an object.
C28_NestedScoping ==
  pc = "done" =>
    /\ \A k \in {<<"h">>, <<"o">>, <<"j">>, <<"a">>, <<"b">>} : HasKey(result, k) <=> HasKey(data, k)
    /\ PyEq(Get(result, <<"o">>), Get(data, <<"o">>))

(***************************************************************************)
(* LLMRouter of services/llm_router.py.  In this part data holds the       *)
(* locals of route_request (request, providers, the position index of      *)
(* "for provider in providers", last_exception), options holds the locals  *)
(* of _try_with_retries (provider, delay, attempt, last_exception), out is *)
(* the sequence of the calls of self.client.generate with the outcome of   *)
(* each, and result is what route_request returned or raised.              *)
(***************************************************************************)
PROVIDER_FALLBACK_CHAIN == <<"gemini", "claude", "gpt4">>

MAX_RETRIES == 3

INITIAL_RETRY_DELAY == 1

MAX_RETRY_DELAY == 10

BACKOFF_MULTIPLIER == 2

\* what LLMClient.generate raises: the subclasses of LLMException
LLMExceptions ==
  {"LLMProviderUnavailableError", "LLMTimeoutError", "LLMRateLimitError",
   "LLMAuthenticationError", "LLMInvalidRequestError", "LLMResponseParsingError"}

\* the mutation of IsRetryable: every LLMException is caught and retried
AnyLLMException(e) == e \in LLMExceptions

\* except (LLMProviderUnavailableError, LLMTimeoutError, LLMRateLimitError)
IsRetryable(e) == e \in {"LLMProviderUnavailableError", "LLMTimeoutError", "LLMRateLimitError"}

NoFrame == [provider |-> "None", delay |-> 0, attempt |-> 0, last_exception |-> "None"]

InitRoute ==
  /\ pc = "start"
  /\ \E p \in {"auto", "gemini", "claude", "gpt4"} :
       data = [request |-> [llm_provider |-> p], providers |-> <<>>, index |-> 0, last_exception |-> "None"]
  /\ options = NoFrame
  /\ toon_string = <<>>
  /\ lines = <<>>
  /\ i = 0
  /\ result = [returned |-> "None", raised |-> "None"]
  /\ out = <<>>

\* route_request up to its loop: providers is the chain for AUTO, else the one provider
route_request ==
  /\ pc = "start"
  /\ data' = [data EXCEPT !.providers = IF data.request.llm_provider = "auto" THEN PROVIDER_FALLBACK_CHAIN
                                         ELSE <<data.request.llm_provider>>]
  /\ pc' = "for provider"
  /\ UNCHANGED <<options, toon_string, lines, i, result, out>>

\* for provider in providers: the call of _try_with_retries up to its loop
AttemptProvider ==
  /\ pc = "for provider"
  /\ data.index < Len(data.providers)
  /\ data' = [data EXCEPT !.index = data.index + 1]
  /\ options' = [provider |-> data.providers[data.index + 1], delay |-> INITIAL_RETRY_DELAY,
                 attempt |-> 0, last_exception |-> "None"]
  /\ pc' = "for attempt"
  /\ UNCHANGED <<toon_string, lines, i, result, out>>

\* the end of the loop over the providers: raise last_exception, or the error of "all"
AllProvidersFailed ==
  /\ pc = "for provider"
  /\ data.index >= Len(data.providers)
  /\ result' = [result EXCEPT !.raised = IF data.last_exception # "None" THEN data.last_exception
                                         ELSE "LLMProviderUnavailableError"]
  /\ pc' = "raised"
  /\ UNCHANGED <<data, options, toon_string, lines, i, out>>

\* one iteration of for attempt in range(MAX_RETRIES): self.client.generate returns, or
\* raises e; a retryable e is kept and the delay doubled, any other LLMException leaves
\* _try_with_retries and route_request
Attempt ==
  /\ pc = "for attempt"
  /\ options.attempt < MAX_RETRIES
  /\ \E outcome \in {"ok"} \cup LLMExceptions :
       /\ out' = Append(out, [provider |-> options.provider, outcome |-> outcome])
       /\ IF outcome = "ok"
            THEN /\ result' = [result EXCEPT !.returned = options.provider]
                 /\ pc' = "returned"
                 /\ UNCHANGED options
            ELSE IF IsRetryable(outcome)
            THEN /\ options' = [options EXCEPT !.last_exception = outcome,
                                               !.attempt = options.attempt + 1,
                                               !.delay = IF options.attempt < MAX_RETRIES - 1
                                                           THEN (IF options.delay * BACKOFF_MULTIPLIER < MAX_RETRY_DELAY
                                                                   THEN options.delay * BACKOFF_MULTIPLIER ELSE MAX_RETRY_DELAY)
                                                           ELSE options.delay]
                 /\ UNCHANGED <<pc, result>>
            ELSE /\ result' = [result EXCEPT !.raised = outcome]
                 /\ pc' = "raised"
                 /\ UNCHANGED options
  /\ UNCHANGED <<data, toon_string, lines, i>>

\* all retries exhausted: _try_with_retries raises last_exception, which route_request
\* catches if it is retryable (last_exception = e; continue) and raises again if not
RetriesExhausted ==
  /\ pc = "for attempt"
  /\ options.attempt >= MAX_RETRIES
  /\ LET e == IF options.last_exception # "None" THEN options.last_exception ELSE "LLMProviderUnavailableError"
     IN IF IsRetryable(e)
          THEN /\ data' = [data EXCEPT !.last_exception = e]
               /\ pc' = "for provider"
               /\ UNCHANGED result
          ELSE /\ result' = [result EXCEPT !.raised = e]
               /\ pc' = "raised"
               /\ UNCHANGED data
  /\ UNCHANGED <<options, toon_string, lines, i, out>>

NextRoute == route_request \/ AttemptProvider \/ AllProvidersFailed \/ Attempt \/ RetriesExhausted

SpecRoute == InitRoute /\ [][NextRoute]_vars

\* the position of provider p in the fallback chain
Rank(p) == CHOOSE r \in 1..Len(PROVIDER_FALLBACK_CHAIN) : PROVIDER_FALLBACK_CHAIN[r] = p

\* the errors after which another attempt is allowed: unavailable, timeout, rate limit
RetryableErrors == {"LLMProviderUnavailableError", "LLMTimeoutError", "LLMRateLimitError"}

\* the positions in out of the generate calls that provider p received
CallsOf(p) == {k \in 1..Len(out) : out[k].provider = p}

\* C29: routing order for provider AUTO: the generate calls go to GEMINI, CLAUDE, GPT4
\* in this order; no provider receives more than MAX_RETRIES calls; a provider is called
\* only after each provider before it failed MAX_RETRIES calls with retryable errors;
\* and after a call that raised any other LLMException there is no further call and the
\* request has ended with that exception.
C29_RoutingOrder ==
  data.request.llm_provider = "auto" =>
    /\ \A k \in 1..Len(out) : \A j \in 1..k : Rank(out[j].provider) <= Rank(out[k].provider)
    /\ \A p \in {"gemini", "claude", "gpt4"} : Cardinality(CallsOf(p)) <= MAX_RETRIES
    /\ \A k \in 1..Len(out) : \A r \in 1..(Rank(out[k].provider) - 1) :
         /\ Cardinality(CallsOf(PROVIDER_FALLBACK_CHAIN[r])) = MAX_RETRIES
         /\ \A j \in CallsOf(PROVIDER_FALLBACK_CHAIN[r]) : j < k /\ out[j].outcome \in RetryableErrors
    /\ \A k \in 1..Len(out) :
         out[k].outcome \in LLMExceptions \ RetryableErrors =>
           k = Len(out) /\ pc = "raised" /\ result.raised = out[k].outcome

\* GPT4 was reached after six retryable failures and raised an authentication error
C29_Witness ==
  /\ data.request.llm_provider = "auto"
  /\ pc = "raised"
  /\ Len(out) > 2 * MAX_RETRIES
  /\ out[Len(out)].provider = "gpt4"
  /\ out[Len(out)].outcome = "LLMAuthenticationError"

(***************************************************************************)
(* RateLimitMiddleware.dispatch of api/middleware/rate_limit.py over the   *)
(* RateLimiter of services/rate_limiter.py, for concurrent requests of one *)
(* API key within one hour window.  In this part pc[r] is the await at     *)
(* which request r stands, options is the api_key, data is the sorted set  *)
(* at redis_key (its members, each the time of a recorded request), i is   *)
(* time.time(), lines[r] is the current_count that request r read (-1      *)
(* before), out is the sequence of the requests passed on to call_next,    *)
(* and result[r] is the response of request r.  Redis answers every        *)
(* command.                                                                *)
(***************************************************************************)
\* the number of concurrent requests
MaxRequests == 3

\* the largest rate_limit_per_hour
MaxLimit == 2

\* the latest time.time() within the window, with the window starting at 0
MaxTime == 2

Requests == 1..MaxRequests

\* "/", "/docs", "/redoc", "/openapi.json", "/v1/health", "/v1/metrics", "/v1/api-keys/"
EXCLUDED_PATHS ==
  <<<<"/">>, <<"/", "d", "o", "c", "s">>, <<"/", "r", "e", "d", "o", "c">>,
    <<"/", "o", "p", "e", "n", "a", "p", "i", ".", "j", "s", "o", "n">>,
    <<"/", "v", "1", "/", "h", "e", "a", "l", "t", "h">>,
    <<"/", "v", "1", "/", "m", "e", "t", "r", "i", "c", "s">>,
    <<"/", "v", "1", "/", "a", "p", "i", "-", "k", "e", "y", "s", "/">>>>

\* request.url.path: "/v1/analyze", "/v1/health", and "v1/analyze" of a scope whose
\* path has no leading "/"
Paths ==
  {<<"/", "v", "1", "/", "a", "n", "a", "l", "y", "z", "e">>,
   <<"/", "v", "1", "/", "h", "e", "a", "l", "t", "h">>,
   <<"v", "1", "/", "a", "n", "a", "l", "y", "z", "e">>}

\* the requests: the path, the method, and whether request.state holds the api_key
RequestInputs == [path : Paths, method : {"POST", "OPTIONS"}, api_key : BOOLEAN]

InitLimit ==
  /\ pc = [r \in Requests |-> "dispatch"]
  /\ data = {}
  /\ \E l \in 1..MaxLimit : options = [rate_limit_per_hour |-> l]
  /\ toon_string = <<>>
  /\ lines = [r \in Requests |-> -1]
  /\ i = 0
  /\ result = [r \in Requests |-> "None"]
  /\ out = <<>>

\* any(request.url.path.startswith(path) for path in self.EXCLUDED_PATHS)
IsExcluded(path) == \E k \in 1..Len(EXCLUDED_PATHS) : StartsWith(path, EXCLUDED_PATHS[k])

\* dispatch up to its first await: an excluded path, an OPTIONS request and a request
\* without api_key go to call_next without rate limiting
dispatch(r) ==
  /\ pc[r] = "dispatch"
  /\ \E request \in RequestInputs :
       pc' = [pc EXCEPT ![r] = IF IsExcluded(request.path) \/ request.method = "OPTIONS" \/ ~request.api_key
                                 THEN "return await call_next" ELSE "check_rate_limit"]
  /\ UNCHANGED <<data, options, toon_string, lines, i, result, out>>

\* return await call_next(request) of a request that is not rate limited
Unlimited(r) ==
  /\ pc[r] = "return await call_next"
  /\ out' = Append(out, r)
  /\ result' = [result EXCEPT ![r] = "response"]
  /\ pc' = [pc EXCEPT ![r] = "returned"]
  /\ UNCHANGED <<data, options, toon_string, lines, i>>

\* window_start of the hour window that holds every time of this part
_get_window_start == 0

\* await rate_limiter.check_rate_limit(api_key.id, limit): the pipeline removes the
\* entries before the window and counts the rest; RateLimitExceededError if
\* current_count >= limit, and dispatch raises it again
check_rate_limit(r) ==
  /\ pc[r] = "check_rate_limit"
  /\ data' = {t \in data : t >= _get_window_start}
  /\ lines' = [lines EXCEPT ![r] = Cardinality(data')]
  /\ IF Cardinality(data') >= options.rate_limit_per_hour
       THEN /\ pc' = [pc EXCEPT ![r] = "raised"]
            /\ result' = [result EXCEPT ![r] = "RateLimitExceededError"]
       ELSE /\ pc' = [pc EXCEPT ![r] = "record_request"]
            /\ UNCHANGED result
  /\ UNCHANGED <<options, toon_string, i, out>>

\* await rate_limiter.record_request(api_key.id): zadd of the member str(current_time)
\* with score current_time; a member that is in the set already is not added again
record_request(r) ==
  /\ pc[r] = "record_request"
  /\ data' = data \cup {i}
  /\ pc' = [pc EXCEPT ![r] = "call_next"]
  /\ UNCHANGED <<options, toon_string, lines, i, result, out>>

\* response = await call_next(request), and the headers of the response
call_next(r) ==
  /\ pc[r] = "call_next"
  /\ out' = Append(out, r)
  /\ result' = [result EXCEPT ![r] = [remaining |-> options.rate_limit_per_hour - lines[r] - 1]]
  /\ pc' = [pc EXCEPT ![r] = "returned"]
  /\ UNCHANGED <<data, options, toon_string, lines, i>>

\* time passes
Tick ==
  /\ i < MaxTime
  /\ i' = i + 1
  /\ UNCHANGED <<pc, data, options, toon_string, lines, result, out>>

NextLimit ==
  \E r \in Requests : dispatch(r) \/ Unlimited(r) \/ check_rate_limit(r) \/ record_request(r) \/ call_next(r) \/ Tick

SpecLimit == InitLimit /\ [][NextLimit]_vars

\* the requests that dispatch passed on to call_next after check_rate_limit and
\* record_request
Admitted == {r \in Requests : lines[r] >= 0 /\ \E k \in 1..Len(out) : out[k] = r}

\* C30: rate limit under concurrency: the number of requests of one API key that
\* pass through check_rate_limit and record_request and are admitted within the hour
\* window never exceeds the limit of the key.
C30_RateLimit == Cardinality(Admitted) <= options.rate_limit_per_hour

====
